---- MODULE Spec2Model ----
(***************************************************************************)
(* Model of the Halal-chess rules engine (src/unnamed/part_002, the        *)
(* "@/lib/chess" module) and of the game-state handlers of the useGameRoom *)
(* hook (src/src/hooks/useGameTimer.ts) that act on the same GameState.    *)
(*                                                                         *)
(* Conventions.                                                            *)
(*  - A Board is board[row][col] with row, col in 0..7, as in the source.  *)
(*  - Absent optional values (undefined / null) are the constants NoPiece, *)
(*    NoPosition, NoMove and the string Undefined.  hasMoved absent is     *)
(*    FALSE (the source only ever tests it for truthiness).                *)
(*  - The engine's position lists are modelled as sets of positions: the   *)
(*    callers only test membership (Array.some) and emptiness (length).    *)
(*  - A call that the engine does not return from (unbounded recursion     *)
(*    ending in RangeError: Maximum call stack size exceeded) is the       *)
(*    result "threw".                                                      *)
(***************************************************************************)
EXTENDS Integers, Sequences, FiniteSets, TLC

VARIABLES gameState, ret, stored, clients, writes, log, seen, issued, timers, ticks,
          wasOver, timedOut, timeControl, joins, chat

vars == <<gameState, ret, stored, clients, writes, log, seen, issued, timers, ticks,
          wasOver, timedOut, timeControl, joins, chat>>

\* the state of one holder of a game and of its calls of makeMove
engineVars == <<gameState, ret>>

\* the room: the row of chess_rooms, the clients that opened it, the updates of
\* game_state on their way to the database, the updates the database has applied
\* (in order), how many of them each client has been notified of, and how many
\* updates have been sent
roomVars == <<stored, clients, writes, log, seen, issued>>

\* the clocks each client's useGameTimer holds, the interval callbacks run, the
\* clients whose gameState has had a status other than waiting and playing, and
\* the calls of onTimeout made so far
clockVars == <<timers, ticks, wasOver, timedOut>>

\* the calls of fetchRoom that are under way, and the chat of the room: the
\* table chess_messages and what each client holds of it
lobbyVars == <<joins, chat>>

----------------------------------------------------------------------------
(* Types: PieceType, PieceColor, Piece, Position, Move                      *)

PieceType == {"king", "queen", "rook", "bishop", "knight", "pawn"}

PieceColor == {"white", "black"}

Undefined == "undefined"

NoPiece == [type |-> "none", color |-> "none", hasMoved |-> FALSE]

NoPosition == [row |-> -1, col |-> -1]

Pos(r, c) == [row |-> r, col |-> c]

Rows == 0..7

Squares == {Pos(r, c) : r \in Rows, c \in Rows}

Opponent(color) == IF color = "white" THEN "black" ELSE "white"

Abs(n) == IF n < 0 THEN -n ELSE n

NoMove ==
  [from |-> NoPosition, to |-> NoPosition, piece |-> NoPiece, captured |-> NoPiece,
   promotion |-> Undefined, castling |-> Undefined, enPassant |-> FALSE,
   notation |-> ""]

----------------------------------------------------------------------------
(* createInitialBoard, createInitialGameState                               *)

\* a back rank with the king and the queen in each other's place
pieceOrder_KingOnD == <<"rook", "knight", "bishop", "king", "queen", "bishop", "knight", "rook">>

pieceOrder == <<"rook", "knight", "bishop", "queen", "king", "bishop", "knight", "rook">>

createInitialBoard ==
  [r \in Rows |->
    [c \in Rows |->
      IF r = 0 THEN [type |-> pieceOrder[c + 1], color |-> "black", hasMoved |-> FALSE]
      ELSE IF r = 7 THEN [type |-> pieceOrder[c + 1], color |-> "white", hasMoved |-> FALSE]
      ELSE IF r = 1 THEN [type |-> "pawn", color |-> "black", hasMoved |-> FALSE]
      ELSE IF r = 6 THEN [type |-> "pawn", color |-> "white", hasMoved |-> FALSE]
      ELSE NoPiece]]

\* minutes is the number parsed before the '+' (0 stands for 0 and for NaN, both falsy)
createInitialGameState(minutes) ==
  LET timeInSeconds == (IF minutes = 0 THEN 10 ELSE minutes) * 60
  IN [board |-> createInitialBoard,
      turn |-> "white",
      status |-> "waiting",
      moves |-> <<>>,
      whiteTime |-> timeInSeconds,
      blackTime |-> timeInSeconds,
      lastMove |-> NoMove,
      enPassantTarget |-> NoPosition,
      winner |-> Undefined,
      drawOffer |-> Undefined]

----------------------------------------------------------------------------
(* Time-control strings: timeControl.split('+').map(Number)                 *)

MaxLen == 4

\* the characters of the strings passed as timeControl: two digits, the
\* separator, and the letter a, which no number contains
Chars == {"0", "1", "+", "a"}

DigitValue == [c \in {"0", "1", "5"} |-> IF c = "0" THEN 0 ELSE IF c = "1" THEN 1 ELSE 5]

\* the strings of at most MaxLen characters, as sequences of characters
TimeControls == UNION {[1..n -> Chars] : n \in 0..MaxLen}

\* "10+0", the default of createInitialGameState and of CreateGame
TenPlusZero == <<"1", "0", "+", "0">>

\* "10+5", a time control with an increment (CreateGame, line 23)
TenPlusFive == <<"1", "0", "+", "5">>

\* a JavaScript number: NaN, or a natural number
NaN == [nan |-> TRUE, value |-> 0]

Num(v) == [nan |-> FALSE, value |-> v]

RECURSIVE decimal(_)
\* the value of a string of digits
decimal(s) ==
  IF s = <<>> THEN 0
  ELSE decimal(SubSeq(s, 1, Len(s) - 1)) * 10 + DigitValue[s[Len(s)]]

\* Number(s) for a string of Chars: the empty string is 0, a string of digits
\* is its decimal value, any other string is NaN
Number(s) ==
  IF \A i \in 1..Len(s) : s[i] \in DOMAIN DigitValue THEN Num(decimal(s)) ELSE NaN

RECURSIVE split(_)
\* s.split('+')
split(s) ==
  IF \A i \in 1..Len(s) : s[i] # "+" THEN <<s>>
  ELSE LET i == CHOOSE k \in 1..Len(s) : s[k] = "+" /\ \A j \in 1..(k - 1) : s[j] # "+"
       IN <<SubSeq(s, 1, i - 1)>> \o split(SubSeq(s, i + 1, Len(s)))

\* tc.split('+').map(Number), tc being the string passed as timeControl
numbers(tc) ==
  [i \in 1..Len(split(tc)) |-> Number(split(tc)[i])]

\* parts[i] || default: NaN, 0 and undefined (no such part) are falsy
orDefault(parts, i, default) ==
  IF i > Len(parts) \/ parts[i].nan \/ parts[i].value = 0 THEN default ELSE parts[i].value

\* lines 492-498
parseTimeControl(tc) ==
  LET parts == numbers(tc)
  IN [minutes |-> orDefault(parts, 1, 10), increment |-> orDefault(parts, 2, 0)]

\* createInitialGameState(tc), lines 110-122: minutes is the first of
\* the numbers
createInitialGameStateFor(tc) ==
  createInitialGameState(orDefault(numbers(tc), 1, 0))

----------------------------------------------------------------------------
(* Board primitives                                                         *)

isValidPosition(pos) == pos.row >= 0 /\ pos.row < 8 /\ pos.col >= 0 /\ pos.col < 8

getPiece(board, pos) == IF isValidPosition(pos) THEN board[pos.row][pos.col] ELSE NoPiece

\* board[pos.row][pos.col] = piece on a clone of the board
setPiece(board, pos, piece) == [board EXCEPT ![pos.row][pos.col] = piece]

\* the i-th square of the row-major scans  for row 0..7 { for col 0..7 }
SquareAt(i) == Pos(i \div 8, i % 8)

----------------------------------------------------------------------------
(* Results of calls that may fail to return                                 *)

\* a returned value
Returned(v) == [threw |-> FALSE, value |-> v]

\* RangeError (stack exhausted) out of a call that returns a boolean
ThrewBool == [threw |-> TRUE, value |-> FALSE]

\* RangeError (stack exhausted) out of a call that returns a position list
ThrewMoves == [threw |-> TRUE, value |-> {}]

\* const v = <call r>; <rest F(v)>: an exception out of the call is not caught
\* and ends the caller with its own thrown result
Try(r, F(_), thrown) == IF r.threw THEN thrown ELSE F(r.value)

----------------------------------------------------------------------------
(* getRawMoves: pseudo-legal destinations, one operator per switch case     *)

forwardDirection(color) == IF color = "white" THEN -1 ELSE 1

\* a pawn that may advance two squares over an occupied square
pawnMoves_JumpsOver(board, pos, piece, enPassantTarget) ==
  LET direction == forwardDirection(piece.color)
      forward == Pos(pos.row + direction, pos.col)
      startRow == IF piece.color = "white" THEN 6 ELSE 1
      doubleForward == Pos(pos.row + 2 * direction, pos.col)
      forwardMoves ==
        (IF isValidPosition(forward) /\ getPiece(board, forward) = NoPiece
         THEN {forward} ELSE {}) \cup
        (IF pos.row = startRow /\ getPiece(board, doubleForward) = NoPiece
         THEN {doubleForward} ELSE {})
      captureMoves(dc) ==
        LET capturePos == Pos(pos.row + direction, pos.col + dc)
            target == getPiece(board, capturePos)
        IN IF isValidPosition(capturePos)
           THEN (IF target # NoPiece /\ target.color # piece.color
                 THEN {capturePos} ELSE {}) \cup
                (IF enPassantTarget # NoPosition /\ capturePos = enPassantTarget
                 THEN {capturePos} ELSE {})
           ELSE {}
  IN forwardMoves \cup captureMoves(-1) \cup captureMoves(1)

\* lines 150-179
pawnMoves(board, pos, piece, enPassantTarget) ==
  LET direction == forwardDirection(piece.color)
      forward == Pos(pos.row + direction, pos.col)
      startRow == IF piece.color = "white" THEN 6 ELSE 1
      doubleForward == Pos(pos.row + 2 * direction, pos.col)
      forwardMoves ==
        IF isValidPosition(forward) /\ getPiece(board, forward) = NoPiece
        THEN {forward} \cup
             (IF pos.row = startRow /\ getPiece(board, doubleForward) = NoPiece
              THEN {doubleForward} ELSE {})
        ELSE {}
      captureMoves(dc) ==
        LET capturePos == Pos(pos.row + direction, pos.col + dc)
            target == getPiece(board, capturePos)
        IN IF isValidPosition(capturePos)
           THEN (IF target # NoPiece /\ target.color # piece.color
                 THEN {capturePos} ELSE {}) \cup
                (IF enPassantTarget # NoPosition /\ capturePos = enPassantTarget
                 THEN {capturePos} ELSE {})
           ELSE {}
  IN forwardMoves \cup captureMoves(-1) \cup captureMoves(1)

knightOffsets ==
  {<<-2, -1>>, <<-2, 1>>, <<-1, -2>>, <<-1, 2>>, <<1, -2>>, <<1, 2>>, <<2, -1>>, <<2, 1>>}

knightMoves(board, pos, piece) ==
  {newPos \in {Pos(pos.row + d[1], pos.col + d[2]) : d \in knightOffsets} :
     /\ isValidPosition(newPos)
     /\ getPiece(board, newPos).color # piece.color}

RECURSIVE addSlidingMoves(_, _, _, _, _, _)
\* the squares pushed by the while loop from (r, c) on, stepping by (dr, dc)
addSlidingMoves(board, r, c, dr, dc, color) ==
  IF ~isValidPosition(Pos(r, c)) THEN {}
  ELSE LET target == board[r][c]
       IN IF target = NoPiece
          THEN {Pos(r, c)} \cup addSlidingMoves(board, r + dr, c + dc, dr, dc, color)
          ELSE IF target.color # color THEN {Pos(r, c)} ELSE {}

bishopDirections == {<<-1, -1>>, <<-1, 1>>, <<1, -1>>, <<1, 1>>}

rookDirections == {<<-1, 0>>, <<1, 0>>, <<0, -1>>, <<0, 1>>}

slidingMoves(board, pos, piece, directions) ==
  UNION {addSlidingMoves(board, pos.row + d[1], pos.col + d[2], d[1], d[2], piece.color) :
           d \in directions}

kingSteps(board, pos, piece) ==
  {newPos \in {Pos(pos.row + dr, pos.col + dc) : dr \in -1..1, dc \in -1..1} :
     /\ newPos # pos
     /\ isValidPosition(newPos)
     /\ getPiece(board, newPos).color # piece.color}

RECURSIVE getRawMoves(_, _, _, _)
RECURSIVE isSquareAttacked(_, _, _, _)
RECURSIVE anyAttacked(_, _, _, _, _)

\* !isSquareAttacked(s1) && !isSquareAttacked(s2) && !isSquareAttacked(s3) from
\* left to right: value TRUE iff one of squares[i..] is attacked; the first
\* attacked square ends the evaluation
anyAttacked(board, squares, i, color, active) ==
  IF i > Len(squares) THEN Returned(FALSE)
  ELSE Try(isSquareAttacked(board, squares[i], color, active),
           LAMBDA attacked : IF attacked THEN Returned(TRUE)
                             ELSE anyAttacked(board, squares, i + 1, color, active),
           ThrewBool)

\* one side of the castling branch: the castling destinations it pushes
castlingSide(board, row, piece, rookCol, between, kingPath, destCol, active) ==
  LET rook == getPiece(board, Pos(row, rookCol))
  IN IF /\ rook.type = "rook"
        /\ ~rook.hasMoved
        /\ \A c \in between : getPiece(board, Pos(row, c)) = NoPiece
     THEN Try(anyAttacked(board, [i \in 1..3 |-> Pos(row, kingPath[i])], 1,
                          piece.color, active),
              LAMBDA attacked : Returned(IF attacked THEN {} ELSE {Pos(row, destCol)}),
              ThrewMoves)
     ELSE Returned({})

castlingMoves(board, pos, piece, active) ==
  IF piece.hasMoved THEN Returned({})
  ELSE Try(castlingSide(board, pos.row, piece, 7, {5, 6}, <<4, 5, 6>>, 6, active),
           LAMBDA kingside :
             Try(castlingSide(board, pos.row, piece, 0, {1, 2, 3}, <<4, 3, 2>>, 2, active),
                 LAMBDA queenside : Returned(kingside \cup queenside),
                 ThrewMoves),
           ThrewMoves)

\* active: the isSquareAttacked calls (position, defender colour) on the call stack
getRawMoves(board, pos, enPassantTarget, active) ==
  LET piece == getPiece(board, pos)
  IN CASE piece = NoPiece -> Returned({})
       [] piece.type = "pawn" -> Returned(pawnMoves(board, pos, piece, enPassantTarget))
       [] piece.type = "knight" -> Returned(knightMoves(board, pos, piece))
       [] piece.type = "bishop" -> Returned(slidingMoves(board, pos, piece, bishopDirections))
       [] piece.type = "rook" -> Returned(slidingMoves(board, pos, piece, rookDirections))
       [] piece.type = "queen" ->
            Returned(slidingMoves(board, pos, piece, bishopDirections \cup rookDirections))
       [] piece.type = "king" ->
            Try(castlingMoves(board, pos, piece, active),
                LAMBDA castling : Returned(kingSteps(board, pos, piece) \cup castling),
                ThrewMoves)

\* the two nested for loops of isSquareAttacked over outcome, which gives for each
\* square i in row-major order "skip" (no attacker on it), "miss" (its raw moves
\* do not hold the position), "hit" or "threw": the first hit or threw ends the scan
scanAttackers(outcome) ==
  LET ends == {i \in DOMAIN outcome : outcome[i] \in {"hit", "threw"}}
  IN IF ends = {} THEN Returned(FALSE)
     ELSE IF outcome[CHOOSE i \in ends : \A j \in ends : i <= j] = "threw" THEN ThrewBool
     ELSE Returned(TRUE)

\* The board is not changed during a call, so a call of isSquareAttacked made
\* while the same call (same position, same defender) is on the stack repeats it
\* without end: the recursion is unbounded and the stack is exhausted.
isSquareAttacked(board, pos, defenderColor, active) ==
  IF <<pos, defenderColor>> \in active THEN ThrewBool
  ELSE scanAttackers(
         [i \in 0..63 |->
            IF board[i \div 8][i % 8].color = Opponent(defenderColor)
            THEN Try(getRawMoves(board, SquareAt(i), NoPosition,
                                 active \cup {<<pos, defenderColor>>}),
                     LAMBDA moves : IF pos \in moves THEN "hit" ELSE "miss",
                     "threw")
            ELSE "skip"])

findKing(board, color) ==
  LET kings == {i \in 0..63 : LET p == getPiece(board, SquareAt(i))
                              IN p.type = "king" /\ p.color = color}
  IN IF kings = {} THEN NoPosition
     ELSE SquareAt(CHOOSE i \in kings : \A j \in kings : i <= j)

\* a check test that never sees a check
isInCheck_Never(board, color) == Returned(FALSE)

\* lines 310-314
isInCheck(board, color) ==
  LET kingPos == findKing(board, color)
  IN IF kingPos = NoPosition THEN Returned(FALSE)
     ELSE isSquareAttacked(board, kingPos, color, {})

----------------------------------------------------------------------------
(* getLegalMoves                                                            *)

\* the scratch board of getLegalMoves after playing piece from pos to move
testBoardAfter(board, pos, piece, move, enPassantTarget) ==
  LET moved == setPiece(setPiece(board, move, [piece EXCEPT !.hasMoved = TRUE]),
                        pos, NoPiece)
      capturedPawnRow == IF piece.color = "white" THEN move.row + 1 ELSE move.row - 1
  IN IF piece.type = "pawn" /\ enPassantTarget # NoPosition /\ move = enPassantTarget
     THEN setPiece(moved, Pos(capturedPawnRow, move.col), NoPiece)
     ELSE moved

\* the for loop of getLegalMoves over checks, the pairs <<move, isInCheck on the
\* scratch board of move>> of the raw moves
filterLegalMoves(checks) ==
  IF \E c \in checks : c[2].threw THEN ThrewMoves
  ELSE Returned({c[1] : c \in {d \in checks : ~d[2].value}})

getLegalMoves(board, pos, enPassantTarget) ==
  IF getPiece(board, pos) = NoPiece THEN Returned({})
  ELSE Try(getRawMoves(board, pos, enPassantTarget, {}),
           LAMBDA rawMoves :
             filterLegalMoves(
               {<<move, isInCheck(testBoardAfter(board, pos, getPiece(board, pos), move,
                                                 enPassantTarget),
                                  getPiece(board, pos).color)>> : move \in rawMoves}),
           ThrewMoves)

----------------------------------------------------------------------------
(* generateNotation                                                         *)

files == <<"a", "b", "c", "d", "e", "f", "g", "h">>

pieceLetters ==
  [king |-> "K", queen |-> "Q", rook |-> "R", bishop |-> "B", knight |-> "N", pawn |-> ""]

\* a notation that leaves out the capture
generateNotation_NoCapture(move) ==
  IF move.castling = "kingside" THEN "O-O"
  ELSE IF move.castling = "queenside" THEN "O-O-O"
  ELSE LET letter == IF move.piece.type # "pawn" THEN pieceLetters[move.piece.type] ELSE ""
           square == files[move.to.col + 1] \o ToString(8 - move.to.row)
           promo == IF move.promotion # Undefined
                    THEN "=" \o pieceLetters[move.promotion] ELSE ""
       IN letter \o square \o promo

generateNotation(move) ==
  IF move.castling = "kingside" THEN "O-O"
  ELSE IF move.castling = "queenside" THEN "O-O-O"
  ELSE LET letter == IF move.piece.type # "pawn" THEN pieceLetters[move.piece.type] ELSE ""
           capture == IF move.captured # NoPiece \/ move.enPassant
                      THEN (IF move.piece.type = "pawn" THEN files[move.from.col + 1] ELSE "")
                           \o "x"
                      ELSE ""
           square == files[move.to.col + 1] \o ToString(8 - move.to.row)
           promo == IF move.promotion # Undefined
                    THEN "=" \o pieceLetters[move.promotion] ELSE ""
       IN letter \o capture \o square \o promo

----------------------------------------------------------------------------
(* makeMove                                                                 *)

RECURSIVE scanLegalMoves(_, _, _, _)
\* the labelled loop "outer" of makeMove from square i on, in row-major order:
\* value TRUE iff a piece of nextTurn with a legal move is found (break outer)
scanLegalMoves(board, nextTurn, enPassantTarget, i) ==
  LET rest == {j \in i..63 : board[j \div 8][j % 8].color = nextTurn}
      k == CHOOSE j \in rest : \A m \in rest : j <= m
  IN IF rest = {} THEN Returned(FALSE)
     ELSE Try(getLegalMoves(board, SquareAt(k), enPassantTarget),
              LAMBDA moves : IF moves # {} THEN Returned(TRUE)
                             ELSE scanLegalMoves(board, nextTurn, enPassantTarget, k + 1),
              ThrewBool)

\* a castling move that puts the rook on column 5 on either side
moveCastlingRook_AlwaysKingside(board, from, isKingside) ==
  LET rookFromCol == IF isKingside THEN 7 ELSE 0
  IN setPiece(setPiece(board, Pos(from.row, 5),
                       [board[from.row][rookFromCol] EXCEPT !.hasMoved = TRUE]),
              Pos(from.row, rookFromCol), NoPiece)

\* a castling move that leaves the rook in its corner
moveCastlingRook_Stays(board, from, isKingside) == board

\* lines 371-377: the rook of the castling side goes next to the king
moveCastlingRook(board, from, isKingside) ==
  LET rookFromCol == IF isKingside THEN 7 ELSE 0
      rookToCol == IF isKingside THEN 5 ELSE 3
  IN setPiece(setPiece(board, Pos(from.row, rookToCol),
                       [board[from.row][rookFromCol] EXCEPT !.hasMoved = TRUE]),
              Pos(from.row, rookFromCol), NoPiece)

\* an en-passant capture that takes the piece off the target square itself
capturedPawnRow_Target(piece, to) == to.row

\* line 383: the row of the pawn an en-passant capture onto to removes
capturedPawnRow(piece, to) == IF piece.color = "white" THEN to.row + 1 ELSE to.row - 1

\* a promotion that ignores the choice
promotedType_AlwaysQueen(promotion) == "queen"

\* lines 396-397: promotion || 'queen'
promotedType(promotion) == IF promotion # Undefined THEN promotion ELSE "queen"

\* an en-passant target that stays until the next two-square advance
newEnPassantTarget_CarriedOver(state, piece, from, to) ==
  IF piece.type = "pawn" /\ Abs(to.row - from.row) = 2
  THEN Pos((from.row + to.row) \div 2, from.col)
  ELSE state.enPassantTarget

\* lines 368 and 389-392: newEnPassantTarget
newEnPassantTarget(state, piece, from, to) ==
  IF piece.type = "pawn" /\ Abs(to.row - from.row) = 2
  THEN Pos((from.row + to.row) \div 2, from.col)
  ELSE NoPosition

\* lines 356-405: the new board, the move record and the new en-passant target
applyMove(state, piece, from, to, promotion) ==
  LET isCastling == piece.type = "king" /\ Abs(to.col - from.col) = 2
      isKingside == to.col > from.col
      isEnPassant == /\ piece.type = "pawn"
                     /\ state.enPassantTarget # NoPosition
                     /\ to = state.enPassantTarget
      isPromotion == piece.type = "pawn" /\ (to.row = 0 \/ to.row = 7)
      promoted == promotedType(promotion)
      board0 == state.board
      board1 == IF isCastling THEN moveCastlingRook(board0, from, isKingside)
                ELSE board0
      board2 == IF isEnPassant
                THEN setPiece(board1, Pos(capturedPawnRow(piece, to), to.col), NoPiece)
                ELSE board1
      board3 == IF isPromotion
                THEN setPiece(board2, to,
                              [type |-> promoted, color |-> piece.color, hasMoved |-> TRUE])
                ELSE setPiece(board2, to, [piece EXCEPT !.hasMoved = TRUE])
      newBoard == setPiece(board3, from, NoPiece)
      move0 == [from |-> from,
                to |-> to,
                piece |-> piece,
                captured |-> IF isEnPassant THEN board1[capturedPawnRow(piece, to)][to.col]
                             ELSE getPiece(board0, to),
                promotion |-> IF isPromotion THEN promoted ELSE Undefined,
                castling |-> IF isCastling
                             THEN (IF isKingside THEN "kingside" ELSE "queenside")
                             ELSE Undefined,
                enPassant |-> isEnPassant,
                notation |-> ""]
  IN [board |-> newBoard,
      move |-> [move0 EXCEPT !.notation = generateNotation(move0)],
      enPassantTarget |-> newEnPassantTarget(state, piece, from, to)]

\* How a call of makeMove ends.  kind "state": the new GameState is returned in
\* .state; kind "null": null is returned; kind "threw": RangeError.  The argument
\* state is never assigned to (cloneBoard at 356, object spread at 441), so it is
\* what .state holds when no new state is returned.
ReturnsNull(state) == [kind |-> "null", state |-> state]

Throws(state) == [kind |-> "threw", state |-> state]

\* a returned state in which the turn has not passed to the other player
ReturnsState_SameTurn(state, applied, status, winner) ==
  [kind |-> "state",
   state |-> [state EXCEPT !.board = applied.board,
                           !.status = status,
                           !.moves = Append(state.moves, applied.move),
                           !.lastMove = applied.move,
                           !.enPassantTarget = applied.enPassantTarget,
                           !.winner = winner]]

\* lines 441-450
ReturnsState(state, applied, status, winner) ==
  [kind |-> "state",
   state |-> [state EXCEPT !.board = applied.board,
                           !.turn = Opponent(state.turn),
                           !.status = status,
                           !.moves = Append(state.moves, applied.move),
                           !.lastMove = applied.move,
                           !.enPassantTarget = applied.enPassantTarget,
                           !.winner = winner]]

\* a makeMove that never looks for the end of the game
checkGameStatus_NoEnd(state, applied) ==
  ReturnsState(state, applied,
               IF state.status = "waiting" THEN "playing" ELSE state.status,
               Undefined)

\* lines 407-450, applied being the board, move and en-passant target of 356-405
checkGameStatus(state, applied) ==
  Try(scanLegalMoves(applied.board, Opponent(state.turn), applied.enPassantTarget, 0),
      LAMBDA hasLegalMoves :
        IF hasLegalMoves
        THEN ReturnsState(state, applied,
                          IF state.status = "waiting" THEN "playing" ELSE state.status,
                          Undefined)
        ELSE Try(isInCheck(applied.board, Opponent(state.turn)),
                 LAMBDA inCheck :
                   IF inCheck THEN ReturnsState(state, applied, "checkmate", state.turn)
                   ELSE ReturnsState(state, applied, "stalemate", Undefined),
                 Throws(state)),
      Throws(state))

\* a makeMove without the test of line 352
makeMoveWith_AnyDestination(state, from, to, promotion, legalMoves) ==
  LET piece == getPiece(state.board, from)
  IN IF piece = NoPiece \/ piece.color # state.turn THEN ReturnsNull(state)
     ELSE IF legalMoves.threw THEN Throws(state)
     ELSE checkGameStatus(state, applyMove(state, piece, from, to, promotion))

\* makeMove with legalMoves standing for the value of line 351,
\*   getLegalMoves(state.board, from, state.enPassantTarget),
\* which is looked at only once lines 348-349 have passed
makeMoveWith(state, from, to, promotion, legalMoves) ==
  LET piece == getPiece(state.board, from)
  IN IF piece = NoPiece \/ piece.color # state.turn THEN ReturnsNull(state)
     ELSE IF legalMoves.threw THEN Throws(state)
     ELSE IF to \notin legalMoves.value THEN ReturnsNull(state)
     ELSE checkGameStatus(state, applyMove(state, piece, from, to, promotion))

makeMove(state, from, to, promotion) ==
  makeMoveWith(state, from, to, promotion,
               getLegalMoves(state.board, from, state.enPassantTarget))

----------------------------------------------------------------------------
(* The calls made on the engine.  The game starts from                      *)
(* createInitialGameState("10+0"); the players follow one of the lines of   *)
(* the Book call by call and, at the end of a line of FreePlayLines, make   *)
(* up to FreePlies further accepted moves, calling makeMove with every from *)
(* and every to of the board.                                               *)

FreePlies == 1

FileCol == [a |-> 0, b |-> 1, c |-> 2, d |-> 3, e |-> 4, f |-> 5, g |-> 6, h |-> 7]

\* the square of a file and a rank: rank is displayed as 8 - row
Sq(file, rank) == Pos(8 - rank, FileCol[file])

Ply(f1, r1, f2, r2) == <<Sq(f1, r1), Sq(f2, r2)>>

\* 1.f3 e5 2.g4 Qh4#
FoolsMate == <<Ply("f", 2, "f", 3), Ply("e", 7, "e", 5), Ply("g", 2, "g", 4),
               Ply("d", 8, "h", 4)>>

\* 1.e4 e5 2.Nf3 Nf6 3.Bc4 Bc5: both kings and king's rooks unmoved, f1 g1 f8 g8 empty
BothCanCastle == <<Ply("e", 2, "e", 4), Ply("e", 7, "e", 5), Ply("g", 1, "f", 3),
                   Ply("g", 8, "f", 6), Ply("f", 1, "c", 4), Ply("f", 8, "c", 5)>>

\* 1.e4 e5 2.Nf3 Nf6 3.Bc4 Nc6 4.O-O Bc5 5.d3 O-O
CastleKingside == <<Ply("e", 2, "e", 4), Ply("e", 7, "e", 5), Ply("g", 1, "f", 3),
                    Ply("g", 8, "f", 6), Ply("f", 1, "c", 4), Ply("b", 8, "c", 6),
                    Ply("e", 1, "g", 1), Ply("f", 8, "c", 5), Ply("d", 2, "d", 3),
                    Ply("e", 8, "g", 8)>>

\* 1.d4 d5 2.Nc3 e6 3.Bf4 a6 4.Qd2 a5 5.O-O-O
CastleQueenside == <<Ply("d", 2, "d", 4), Ply("d", 7, "d", 5), Ply("b", 1, "c", 3),
                     Ply("e", 7, "e", 6), Ply("c", 1, "f", 4), Ply("a", 7, "a", 6),
                     Ply("d", 1, "d", 2), Ply("a", 6, "a", 5), Ply("e", 1, "c", 1)>>

\* 1.e4 d5 2.Nf3 d4 3.Be2 d3 4.a3 dxe2 5.O-O: the pawn on e2 attacks f1
CastleThroughPawn == <<Ply("e", 2, "e", 4), Ply("d", 7, "d", 5), Ply("g", 1, "f", 3),
                       Ply("d", 5, "d", 4), Ply("f", 1, "e", 2), Ply("d", 4, "d", 3),
                       Ply("a", 2, "a", 3), Ply("d", 3, "e", 2), Ply("e", 1, "g", 1)>>

\* 1.e4 a6 2.e5 d5 3.exd6 e.p.
EnPassantLine == <<Ply("e", 2, "e", 4), Ply("a", 7, "a", 6), Ply("e", 4, "e", 5),
                   Ply("d", 7, "d", 5), Ply("e", 5, "d", 6)>>

\* 1.h4 g5 2.hxg5 h6 3.gxh6 a6 4.h7 a5 5.hxg8
PromotionLine == <<Ply("h", 2, "h", 4), Ply("g", 7, "g", 5), Ply("h", 4, "g", 5),
                   Ply("h", 7, "h", 6), Ply("g", 5, "h", 6), Ply("a", 7, "a", 6),
                   Ply("h", 6, "h", 7), Ply("a", 6, "a", 5), Ply("h", 7, "g", 8)>>

\* 1.e3 a5 2.Qh5 Ra6 3.Qxa5 h5 4.h4 Rah6 5.Qxc7 f6 6.Qxd7+ Kf7 7.Qxb7 Qd3
\* 8.Qxb8 Qh7 9.Qxc8 Kg6 10.Qe6 stalemate
StalemateLine == <<Ply("e", 2, "e", 3), Ply("a", 7, "a", 5), Ply("d", 1, "h", 5),
                   Ply("a", 8, "a", 6), Ply("h", 5, "a", 5), Ply("h", 7, "h", 5),
                   Ply("h", 2, "h", 4), Ply("a", 6, "h", 6), Ply("a", 5, "c", 7),
                   Ply("f", 7, "f", 6), Ply("c", 7, "d", 7), Ply("e", 8, "f", 7),
                   Ply("d", 7, "b", 7), Ply("d", 8, "d", 3), Ply("b", 7, "b", 8),
                   Ply("d", 3, "h", 7), Ply("b", 8, "c", 8), Ply("f", 7, "g", 6),
                   Ply("c", 8, "e", 6)>>

\* 1.e4 d5 2.Bb5+ Bd7 3.a3: the bishop on d7 is pinned to the king on e8
PinLine == <<Ply("e", 2, "e", 4), Ply("d", 7, "d", 5), Ply("f", 1, "b", 5),
             Ply("c", 8, "d", 7), Ply("a", 2, "a", 3)>>

Book == {FoolsMate, BothCanCastle, CastleKingside, CastleQueenside, CastleThroughPawn,
         EnPassantLine, PromotionLine, StalemateLine, PinLine}

\* the accepted calls so far, as <<from, to>> pairs
History(state) == [i \in 1..Len(state.moves) |-> <<state.moves[i].from, state.moves[i].to>>]

IsPrefix(s, t) == Len(s) <= Len(t) /\ \A i \in 1..Len(s) : s[i] = t[i]

\* the next calls of the lines of the book that start with the history
BookCalls(state) ==
  {line[Len(state.moves) + 1] :
     line \in {l \in Book : Len(l) > Len(state.moves) /\ IsPrefix(History(state), l)}}

\* the lines of the book after which the players go on with calls of their own
FreePlayLines == {FoolsMate, StalemateLine, PinLine, EnPassantLine, CastleKingside,
                  CastleQueenside}

\* one of these lines has been played to its end and fewer than FreePlies moves followed
InFreePlay(state) ==
  \E line \in FreePlayLines : /\ IsPrefix(line, History(state))
                              /\ Len(state.moves) - Len(line) < FreePlies

Calls(state) == IF InFreePlay(state) THEN Squares \X Squares ELSE BookCalls(state)

\* the squares that are the from of a call of Calls(state), and the squares that
\* are the to of its calls from one square
CallFroms(state) ==
  IF InFreePlay(state) THEN Squares ELSE {call[1] : call \in BookCalls(state)}

CallTos(state, from) ==
  IF InFreePlay(state)
  THEN Squares
  ELSE {call[2] : call \in {c \in BookCalls(state) : c[1] = from}}

\* promotion is read at lines 395-397 only, for a pawn that arrives on row 0 or 7;
\* there every PieceType and undefined are passed, elsewhere it is left undefined
PromotionArgs(state, from, to) ==
  IF getPiece(state.board, from).type = "pawn" /\ (to.row = 0 \/ to.row = 7)
  THEN PieceType \cup {Undefined}
  ELSE {Undefined}

----------------------------------------------------------------------------
(* The room of useGameRoom: the row of chess_rooms and the clients.         *)

MaxWrites == 3

\* the clients: two open the room with its player code, one with its spectator code
ClientIds == {"p1", "p2", "sp"}

JoinOrder == <<"p1", "p2", "sp">>

RoomCodeOf == [p1 |-> "player", p2 |-> "player", sp |-> "spectator"]

\* player_white_id, player_black_id: null
NoPlayer == "null"

\* playerColor: null
NoColor == "none"

\* JSON.parse(JSON.stringify(state)): every field that is set is written, a field
\* that is undefined is left out
toJson(state) ==
  [board |-> state.board,
   turn |-> state.turn,
   status |-> state.status,
   moves |-> state.moves,
   whiteTime |-> state.whiteTime,
   blackTime |-> state.blackTime,
   lastMove |-> state.lastMove,
   enPassantTarget |-> state.enPassantTarget,
   winner |-> state.winner,
   drawOffer |-> state.drawOffer]

\* lines 172-182 and 483-493: the GameState a client builds from a stored
\* game_state; drawOffer is not read, and a clock of 0 is read as 600
parseGameState(gs) ==
  [board |-> gs.board,
   turn |-> gs.turn,
   status |-> gs.status,
   moves |-> gs.moves,
   whiteTime |-> IF gs.whiteTime = 0 THEN 600 ELSE gs.whiteTime,
   blackTime |-> IF gs.blackTime = 0 THEN 600 ELSE gs.blackTime,
   lastMove |-> gs.lastMove,
   enPassantTarget |-> gs.enPassantTarget,
   winner |-> gs.winner,
   drawOffer |-> Undefined]

\* CreateGame.handleCreate: the row inserted for a room with time control "10+0"
createdRoom ==
  [player_white_id |-> NoPlayer,
   player_black_id |-> NoPlayer,
   game_state |-> toJson(createInitialGameState(10))]

\* a client: loaded is "room and gameState are set"
Client(loaded, state, color) ==
  [loaded |-> loaded, gameState |-> state, playerColor |-> color]

\* fetchRoom, lines 147-239, run from its first line to its last by the client id
\* on the row it reads: the row it leaves and the client state it sets
fetchRoom(row, id) ==
  LET isPlayerCode == RoomCodeOf[id] = "player"
      parsedGameState == parseGameState(row.game_state)
  IN IF ~isPlayerCode
     THEN [row |-> row, client |-> Client(TRUE, parsedGameState, NoColor)]
     ELSE IF row.player_white_id = NoPlayer
     THEN [row |-> [row EXCEPT !.player_white_id = id],
           client |-> Client(TRUE, parsedGameState, "white")]
     ELSE IF row.player_white_id = id
     THEN [row |-> row, client |-> Client(TRUE, parsedGameState, "white")]
     ELSE IF row.player_black_id = NoPlayer
     THEN [row |-> [row EXCEPT !.player_black_id = id],
           client |-> Client(TRUE, parsedGameState, "black")]
     ELSE IF row.player_black_id = id
     THEN [row |-> row, client |-> Client(TRUE, parsedGameState, "black")]
     ELSE [row |-> row, client |-> Client(FALSE, parsedGameState, NoColor)]

RECURSIVE rowAfterJoins(_)
\* the row once the first i clients of JoinOrder have loaded the room
rowAfterJoins(i) ==
  IF i = 0 THEN createdRoom ELSE fetchRoom(rowAfterJoins(i - 1), JoinOrder[i]).row

\* the clients once each has loaded the room, one after the other
joinedClients ==
  [id \in ClientIds |->
     LET i == CHOOSE k \in 1..Len(JoinOrder) : JoinOrder[k] = id
     IN fetchRoom(rowAfterJoins(i - 1), id).client]

\* the newState of handleResign, lines 328-334
resignedState(state, playerColor) ==
  [state EXCEPT !.status = "resigned", !.winner = Opponent(playerColor)]

\* the newState of handleTimeout, lines 305-311
timedOutState(state, loser) ==
  [state EXCEPT !.status = "checkmate", !.winner = Opponent(loser)]

\* the newState of handleOfferDraw, lines 364-367
drawOfferedState(state, playerColor) == [state EXCEPT !.drawOffer = playerColor]

\* the newState of handleAcceptDraw, lines 391-396
drawAcceptedState(state) ==
  [state EXCEPT !.status = "draw", !.winner = Undefined, !.drawOffer = Undefined]

\* the newState of handleDeclineDraw, lines 420-423
drawDeclinedState(state) == [state EXCEPT !.drawOffer = Undefined]

----------------------------------------------------------------------------
(* Specification of the engine: gameState is the state the caller holds,    *)
(* ret is how the last call of makeMove ended.                              *)

\* no row of game_rooms has been inserted
NoRoom == "null"

\* useGameRoom, lines 137-142: room, gameState and playerColor start as null; the
\* gameState of a client that has none
NoGameState == [status |-> "null"]

unloadedClients == [id \in ClientIds |-> Client(FALSE, NoGameState, NoColor)]

\* the clients that open the room with its player code in the races of fetchRoom
Joiners == {"j1", "j2", "j3"}

\* what a call of fetchRoom holds: where it is (start: not called; read: the
\* select of lines 153-156 has returned; done: it has run to its end), the
\* player ids of the row it read, the playerColor it set and its error
Join(pc, white, black, color, error) ==
  [pc |-> pc, player_white_id |-> white, player_black_id |-> black,
   playerColor |-> color, error |-> error]

notJoining == [id \in Joiners |-> Join("start", NoPlayer, NoPlayer, NoColor, "")]

\* no message has been inserted, no client has fetched or subscribed.  table is
\* chess_messages in the order of created_at, messages the list each client
\* holds, fetch the call of fetchMessages, since the number of rows the table
\* had when the channel was subscribed, notified the number of rows whose
\* insert the channel has passed
noChat ==
  [table |-> <<>>,
   messages |-> [id \in ClientIds |-> <<>>],
   fetch |-> [id \in ClientIds |-> [pc |-> "start", data |-> <<>>]],
   subscribed |-> [id \in ClientIds |-> FALSE],
   since |-> [id \in ClientIds |-> 0],
   notified |-> [id \in ClientIds |-> 0]]

\* useGameTimer, lines 18-19: whiteTime and blackTime start as 0
unsetTimers == [id \in ClientIds |-> [whiteTime |-> 0, blackTime |-> 0]]

\* the engine and the hook on their own: no room has been created or opened
Init ==
  /\ gameState = createInitialGameState(10)
  /\ ret = "none"
  /\ stored = NoRoom
  /\ clients = unloadedClients
  /\ writes = {}
  /\ log = <<>>
  /\ seen = [id \in ClientIds |-> 0]
  /\ issued = 0
  /\ timers = unsetTimers
  /\ ticks = 0
  /\ wasOver = {}
  /\ timedOut = <<>>
  /\ timeControl = TenPlusZero
  /\ joins = notJoining
  /\ chat = noChat

\* a room created by CreateGame and opened by the clients of JoinOrder, each
\* client's fetchRoom having run to its end
RoomInit ==
  /\ gameState = createInitialGameState(10)
  /\ ret = "none"
  /\ stored = rowAfterJoins(Len(JoinOrder))
  /\ clients = joinedClients
  /\ writes = {}
  /\ log = <<>>
  /\ seen = [id \in ClientIds |-> 0]
  /\ issued = 0
  /\ timers = unsetTimers
  /\ ticks = 0
  /\ wasOver = {}
  /\ timedOut = <<>>
  /\ timeControl = TenPlusZero
  /\ joins = notJoining
  /\ chat = noChat

\* makeChessMove, lines 275-282: const newState = makeMove(gameState, from, to,
\* promotion); the caller keeps newState when it is not null.  calls is the set of
\* <<from, to>> pairs the players may pass.
MakeMoveAmong(calls) ==
  \E from \in {call[1] : call \in calls} :
    \E legalMoves \in {getLegalMoves(gameState.board, from, gameState.enPassantTarget)} :
      \E to \in {call[2] : call \in {c \in calls : c[1] = from}} :
        \E promotion \in PromotionArgs(gameState, from, to) :
          \E r \in {makeMoveWith(gameState, from, to, promotion, legalMoves)} :
            /\ ret' = r.kind
            /\ gameState' = r.state
            /\ UNCHANGED <<roomVars, clockVars, timeControl, lobbyVars>>

MakeMove == MakeMoveAmong(Calls(gameState))

Next == MakeMove

Spec == Init /\ [][Next]_vars

----------------------------------------------------------------------------
(* Specification of a session: the moves of the book, and the handlers of   *)
(* useGameRoom that replace the game state (setGameState(newState)).        *)

\* handleResign: the player of playerColor resigns
HandleResign ==
  \E playerColor \in PieceColor :
    /\ gameState.status = "playing"
    /\ gameState' = resignedState(gameState, playerColor)
    /\ UNCHANGED <<ret, roomVars, clockVars, timeControl, lobbyVars>>

\* handleTimeout(loser): useGameTimer passes the colour whose clock ran, gameState.turn
HandleTimeout ==
  \E loser \in {gameState.turn} :
    /\ gameState.status = "playing"
    /\ gameState' = timedOutState(gameState, loser)
    /\ UNCHANGED <<ret, roomVars, clockVars, timeControl, lobbyVars>>

\* handleOfferDraw
HandleOfferDraw ==
  \E playerColor \in PieceColor :
    /\ gameState.status = "playing"
    /\ gameState.drawOffer = Undefined
    /\ gameState' = drawOfferedState(gameState, playerColor)
    /\ UNCHANGED <<ret, roomVars, clockVars, timeControl, lobbyVars>>

\* handleAcceptDraw
HandleAcceptDraw ==
  /\ gameState.status = "playing"
  /\ gameState' = drawAcceptedState(gameState)
  /\ UNCHANGED <<ret, roomVars, clockVars, timeControl, lobbyVars>>

\* handleDeclineDraw
HandleDeclineDraw ==
  /\ gameState.status = "playing"
  /\ gameState' = drawDeclinedState(gameState)
  /\ UNCHANGED <<ret, roomVars, clockVars, timeControl, lobbyVars>>

SessionMove == MakeMoveAmong(BookCalls(gameState))

SessionNext ==
  \/ SessionMove
  \/ HandleResign
  \/ HandleTimeout
  \/ HandleOfferDraw
  \/ HandleAcceptDraw
  \/ HandleDeclineDraw

SessionSpec == Init /\ [][SessionNext]_vars

----------------------------------------------------------------------------
(* Specification of a room: three clients have loaded the room; each runs   *)
(* the handlers of useGameRoom on its own gameState and sends the new state *)
(* to the database, which applies the updates in the order they arrive and  *)
(* notifies every client of each.  A client sends its next update once the  *)
(* one before has been answered, and MaxWrites updates are sent in all.     *)

\* the lines the players of the room follow
RoomLines == {FoolsMate}

\* the next calls of these lines for a client that holds state
RoomCalls(state) ==
  {line[Len(state.moves) + 1] :
     line \in {l \in RoomLines : Len(l) > Len(state.moves) /\ IsPrefix(History(state), l)}}

\* a makeChessMove that passes every call on to the engine
mayMove_Always(client) == client.loaded

\* makeChessMove, lines 267-273: the call goes on to makeMove
mayMove(client) ==
  /\ client.loaded
  /\ client.playerColor # NoColor
  /\ client.gameState.turn = client.playerColor

\* lines 327, 356, 389, 418: handleResign and the draw handlers go on
mayAct(client) ==
  /\ client.loaded
  /\ client.playerColor # NoColor
  /\ client.gameState.status = "playing"

\* line 304, and line 40 of the countdown effect: handleTimeout goes on
mayTimeOut(client) ==
  /\ client.loaded
  /\ client.gameState.status = "playing"

\* the client may send an update
MaySend(id) ==
  /\ issued < MaxWrites
  /\ \A w \in writes : w.client # id

\* setGameState(newState) followed by the update of game_state, which is on its
\* way when the handler awaits it
Update(id, kind, newState) ==
  /\ clients' = [clients EXCEPT ![id].gameState = newState]
  /\ writes' = writes \cup {[client |-> id,
                             kind |-> kind,
                             game_state |-> toJson(newState),
                             rollback |-> clients[id].gameState]}
  /\ issued' = issued + 1
  /\ UNCHANGED <<stored, log, seen, engineVars, timeControl, lobbyVars>>

\* an update by a handler that does not touch the clocks
Send(id, kind, newState) == Update(id, kind, newState) /\ UNCHANGED clockVars

\* makeChessMove, lines 266-290, for a call the engine accepts
RoomMove(id) ==
  /\ MaySend(id)
  /\ mayMove(clients[id])
  /\ \E call \in RoomCalls(clients[id].gameState) :
       \E r \in {makeMove(clients[id].gameState, call[1], call[2], Undefined)} :
         /\ r.kind = "state"
         /\ Send(id, "move", r.state)

\* handleResign, lines 326-342
RoomResign(id) ==
  /\ MaySend(id)
  /\ mayAct(clients[id])
  /\ Send(id, "resign", resignedState(clients[id].gameState, clients[id].playerColor))

\* handleTimeout, lines 303-320, called by the countdown of the client when the
\* clock of the color to move reaches 0
RoomTimeout(id) ==
  /\ MaySend(id)
  /\ mayTimeOut(clients[id])
  /\ Send(id, "timeout", timedOutState(clients[id].gameState, clients[id].gameState.turn))

\* handleOfferDraw, lines 355-375
RoomOfferDraw(id) ==
  /\ MaySend(id)
  /\ mayAct(clients[id])
  /\ clients[id].gameState.drawOffer = Undefined
  /\ Send(id, "offer", drawOfferedState(clients[id].gameState, clients[id].playerColor))

\* handleAcceptDraw, lines 388-404
RoomAcceptDraw(id) ==
  /\ MaySend(id)
  /\ mayAct(clients[id])
  /\ Send(id, "accept", drawAcceptedState(clients[id].gameState))

\* handleDeclineDraw, lines 417-431
RoomDeclineDraw(id) ==
  /\ MaySend(id)
  /\ mayAct(clients[id])
  /\ Send(id, "decline", drawDeclinedState(clients[id].gameState))

\* the database applies an update: .update({ game_state }).eq('id', room.id)
\* replaces the stored game_state, whatever it was
ApplyWrite(w) ==
  /\ stored' = [stored EXCEPT !.game_state = w.game_state]
  /\ log' = Append(log, w.game_state)
  /\ writes' = writes \ {w}
  /\ UNCHANGED <<clients, seen, issued, engineVars, clockVars, timeControl, lobbyVars>>

\* the update fails (updateError): makeChessMove puts back the gameState it was
\* called with (line 295), the other handlers leave the local state as it is
FailWrite(w) ==
  /\ writes' = writes \ {w}
  /\ clients' = IF w.kind = "move"
                THEN [clients EXCEPT ![w.client].gameState = w.rollback]
                ELSE clients
  /\ UNCHANGED <<stored, log, seen, issued, engineVars, clockVars, timeControl, lobbyVars>>

\* the realtime UPDATE handler, lines 479-494, for the next update the client
\* has not been notified of
Notify(id) ==
  /\ clients[id].loaded
  /\ seen[id] < Len(log)
  /\ clients' = [clients EXCEPT ![id].gameState = parseGameState(log[seen[id] + 1])]
  /\ seen' = [seen EXCEPT ![id] = seen[id] + 1]
  /\ UNCHANGED <<stored, writes, log, issued, engineVars, clockVars, timeControl, lobbyVars>>

RoomNext ==
  \/ \E id \in ClientIds : RoomMove(id)
  \/ \E id \in ClientIds : RoomResign(id)
  \/ \E id \in ClientIds : RoomTimeout(id)
  \/ \E id \in ClientIds : RoomOfferDraw(id)
  \/ \E id \in ClientIds : RoomAcceptDraw(id)
  \/ \E id \in ClientIds : RoomDeclineDraw(id)
  \/ \E w \in writes : ApplyWrite(w)
  \/ \E w \in writes : FailWrite(w)
  \/ \E id \in ClientIds : Notify(id)

RoomSpec == RoomInit /\ [][RoomNext]_vars

\* the room with its realtime channel at work: a client that has updates left to
\* be notified of is notified of the next one (subscription of lines 466-530)
RoomLiveSpec == RoomSpec /\ \A id \in ClientIds : WF_vars(Notify(id))

-----------------------------------------------------------------------------
(* The clocks: useGameTimer in every client of a room whose time control is  *)
(* "10+5".  Two players have opened the room; a third client opens it later. *)

MaxTicks == 2

\* line 22: the increment of the room's time control, in seconds
Increment == parseTimeControl(TenPlusFive).increment

\* the whole seconds an interval callback finds elapsed (line 44); a callback
\* that finds less than one second returns at line 46
Elapsed == {1, 600}

LateClient == "sp"

Max(a, b) == IF a >= b THEN a ELSE b

\* the clock of a color in the timer of a client
clockOf(timer, color) == IF color = "white" THEN timer.whiteTime ELSE timer.blackTime

\* setWhiteTime / setBlackTime
setClock(timer, color, time) ==
  IF color = "white" THEN [timer EXCEPT !.whiteTime = time]
  ELSE [timer EXCEPT !.blackTime = time]

\* lines 24-29: the effect that copies gameState.whiteTime and gameState.blackTime
\* into the clocks; it runs when the client has a gameState and one of the two
\* values is not the one of the previous render
initTimes(timer, old, new) ==
  IF /\ new.loaded
     /\ \/ ~old.loaded
        \/ old.gameState.whiteTime # new.gameState.whiteTime
        \/ old.gameState.blackTime # new.gameState.blackTime
  THEN [whiteTime |-> new.gameState.whiteTime, blackTime |-> new.gameState.blackTime]
  ELSE timer

\* the clients of JoinOrder have opened the room, LateClient has not
clockClients ==
  [id \in ClientIds |-> IF id = LateClient THEN unloadedClients[id] ELSE joinedClients[id]]

ClockInit ==
  /\ gameState = createInitialGameState(10)
  /\ ret = "none"
  /\ stored = rowAfterJoins(Len(JoinOrder))
  /\ clients = clockClients
  /\ writes = {}
  /\ log = <<>>
  /\ seen = [id \in ClientIds |-> 0]
  /\ issued = 0
  /\ timers = [id \in ClientIds |->
                 initTimes(unsetTimers[id], unloadedClients[id], clockClients[id])]
  /\ ticks = 0
  /\ wasOver = {}
  /\ timedOut = <<>>
  /\ timeControl = TenPlusFive
  /\ joins = notJoining
  /\ chat = noChat

\* the clients that hold a game that is over are added to wasOver
RecordOver ==
  wasOver' = wasOver \cup {id \in ClientIds :
                             /\ clients'[id].loaded
                             /\ clients'[id].gameState.status \notin {"waiting", "playing"}}

\* fetchRoom, run by a client that opens the room now; it is notified of the
\* updates that follow
ClockOpen(id) ==
  /\ ~clients[id].loaded
  /\ \E r \in {fetchRoom(stored, id)} :
       /\ stored' = r.row
       /\ clients' = [clients EXCEPT ![id] = r.client]
       /\ timers' = [timers EXCEPT ![id] = initTimes(@, clients[id], r.client)]
  /\ seen' = [seen EXCEPT ![id] = Len(log)]
  /\ RecordOver
  /\ UNCHANGED <<writes, log, issued, ticks, timedOut, engineVars, timeControl, lobbyVars>>

\* makeChessMove, lines 266-290, for a call the engine accepts
ClockMove(id) ==
  /\ MaySend(id)
  /\ mayMove(clients[id])
  /\ \E call \in RoomCalls(clients[id].gameState) :
       \E r \in {makeMove(clients[id].gameState, call[1], call[2], Undefined)} :
         /\ r.kind = "state"
         /\ Update(id, "move", r.state)
  /\ RecordOver
  /\ UNCHANGED <<timers, ticks, timedOut>>

\* handleResign, lines 326-342
ClockResign(id) ==
  /\ MaySend(id)
  /\ mayAct(clients[id])
  /\ Update(id, "resign", resignedState(clients[id].gameState, clients[id].playerColor))
  /\ RecordOver
  /\ UNCHANGED <<timers, ticks, timedOut>>

\* line 52 and line 60: Math.max(0, prev - elapsed)
newTime(prev, elapsed) == Max(0, prev - elapsed)

\* line 50: the clock the interval callback counts down
runningColor(client) == client.gameState.turn

\* the interval callback of lines 42-66, for elapsed >= 1.  The interval exists
\* while the client has a room and a gameState whose status is playing (line 40);
\* the effect is run again for every gameState, so the callback reads the turn and
\* calls the handleTimeout of the gameState the client holds.  handleTimeout is
\* lines 303-320.
Tick(id) ==
  /\ ticks < MaxTicks
  /\ mayTimeOut(clients[id])
  /\ \E elapsed \in Elapsed :
       \E color \in {runningColor(clients[id])} :
         \E prev \in {clockOf(timers[id], color)} :
           \E time \in {newTime(prev, elapsed)} :
             /\ timers' = [timers EXCEPT ![id] = setClock(@, color, time)]
             /\ ticks' = ticks + 1
             /\ IF time = 0 /\ prev > 0
                THEN /\ issued < MaxWrites
                     /\ Update(id, "timeout", timedOutState(clients[id].gameState, color))
                     /\ timedOut' = Append(timedOut, [client |-> id, loser |-> color])
                ELSE UNCHANGED <<roomVars, engineVars, timeControl, lobbyVars, timedOut>>
  /\ RecordOver

\* addIncrement, lines 90-98
addIncrement(timer, color) ==
  IF Increment > 0 THEN setClock(timer, color, clockOf(timer, color) + Increment)
  ELSE timer

\* the database applies an update and the handler that awaited it goes on:
\* makeChessMove returns true and GameRoom.handleMove, lines 63-68, adds the
\* increment to the clock of the client's color
ClockApply(w) ==
  /\ stored' = [stored EXCEPT !.game_state = w.game_state]
  /\ log' = Append(log, w.game_state)
  /\ writes' = writes \ {w}
  /\ timers' = IF w.kind = "move" /\ clients[w.client].playerColor # NoColor
               THEN [timers EXCEPT ![w.client] =
                       addIncrement(@, clients[w.client].playerColor)]
               ELSE timers
  /\ UNCHANGED <<clients, seen, issued, ticks, wasOver, timedOut, engineVars, timeControl, lobbyVars>>

\* a failed update after which the client keeps the state of its move
ClockFail_NoRollback(w) ==
  /\ writes' = writes \ {w}
  /\ UNCHANGED <<clients, wasOver, stored, log, seen, issued, timers, ticks, timedOut, engineVars,
                 timeControl, lobbyVars>>

\* the update fails (updateError): makeChessMove puts back the gameState it was
\* called with (line 295) and returns false, so that no increment is added; the
\* other handlers leave the local state as it is
ClockFail(w) ==
  /\ writes' = writes \ {w}
  /\ clients' = IF w.kind = "move"
                THEN [clients EXCEPT ![w.client].gameState = w.rollback]
                ELSE clients
  /\ RecordOver
  /\ UNCHANGED <<stored, log, seen, issued, timers, ticks, timedOut, engineVars, timeControl, lobbyVars>>

\* the realtime UPDATE handler, followed by the effect of lines 24-29
ClockNotify(id) ==
  /\ clients[id].loaded
  /\ seen[id] < Len(log)
  /\ \E state \in {parseGameState(log[seen[id] + 1])} :
       /\ clients' = [clients EXCEPT ![id].gameState = state]
       /\ timers' = [timers EXCEPT ![id] =
                       initTimes(@, clients[id], [clients[id] EXCEPT !.gameState = state])]
  /\ seen' = [seen EXCEPT ![id] = seen[id] + 1]
  /\ RecordOver
  /\ UNCHANGED <<stored, writes, log, issued, ticks, timedOut, engineVars, timeControl, lobbyVars>>

ClockNext ==
  \/ ClockOpen(LateClient)
  \/ \E id \in ClientIds : ClockMove(id)
  \/ \E id \in ClientIds : ClockResign(id)
  \/ \E id \in ClientIds : Tick(id)
  \/ \E w \in writes : ClockApply(w)
  \/ \E w \in writes : ClockFail(w)
  \/ \E id \in ClientIds : ClockNotify(id)

ClockSpec == ClockInit /\ [][ClockNext]_vars

-----------------------------------------------------------------------------
(* Creating a game: CreateGame.handleCreate with a time control of           *)
(* TimeControls.                                                             *)

\* lines 58-66: the game state of the new room is createInitialGameState(timeControl)
CreateGame ==
  \E tc \in TimeControls :
    /\ timeControl' = tc
    /\ gameState' = createInitialGameStateFor(tc)
    /\ ret' = "none"
    /\ UNCHANGED <<roomVars, clockVars, lobbyVars>>

CreateSpec == Init /\ [][CreateGame]_vars

----------------------------------------------------------------------------
(* Joining: fetchRoom in the clients that open a created room with its      *)
(* player code.  The select and the update of a call are two requests to    *)
(* the database, and the calls of different clients interleave.             *)

\* the room has been created and nobody has opened it
JoinInit ==
  /\ gameState = createInitialGameState(10)
  /\ ret = "none"
  /\ stored = createdRoom
  /\ clients = unloadedClients
  /\ writes = {}
  /\ log = <<>>
  /\ seen = [id \in ClientIds |-> 0]
  /\ issued = 0
  /\ timers = unsetTimers
  /\ ticks = 0
  /\ wasOver = {}
  /\ timedOut = <<>>
  /\ timeControl = TenPlusZero
  /\ joins = notJoining
  /\ chat = noChat

\* fetchRoom, lines 153-166: the select returns the row as it is now
Select(id) ==
  /\ joins[id].pc = "start"
  /\ joins' = [joins EXCEPT ![id] =
                 Join("read", stored.player_white_id, stored.player_black_id, NoColor, "")]
  /\ UNCHANGED <<roomVars, engineVars, clockVars, timeControl, chat>>

\* fetchRoom, lines 198-229, on roomData, the row the select returned: the
\* update of player_white_id or player_black_id and setPlayerColor, or the error
Assign(id) ==
  /\ joins[id].pc = "read"
  /\ \E roomData \in {joins[id]} :
       IF roomData.player_white_id = NoPlayer
       THEN /\ stored' = [stored EXCEPT !.player_white_id = id]
            /\ joins' = [joins EXCEPT ![id] =
                           Join("done", id, roomData.player_black_id, "white", "")]
       ELSE IF roomData.player_white_id = id
       THEN /\ stored' = stored
            /\ joins' = [joins EXCEPT ![id].pc = "done", ![id].playerColor = "white"]
       ELSE IF roomData.player_black_id = NoPlayer
       THEN /\ stored' = [stored EXCEPT !.player_black_id = id]
            /\ joins' = [joins EXCEPT ![id] =
                           Join("done", roomData.player_white_id, id, "black", "")]
       ELSE IF roomData.player_black_id = id
       THEN /\ stored' = stored
            /\ joins' = [joins EXCEPT ![id].pc = "done", ![id].playerColor = "black"]
       ELSE /\ stored' = stored
            /\ joins' = [joins EXCEPT ![id].pc = "done", ![id].error = "Room is full"]
  /\ UNCHANGED <<clients, writes, log, seen, issued, engineVars, clockVars, timeControl, chat>>

JoinNext ==
  \/ \E id \in Joiners : Select(id)
  \/ \E id \in Joiners : Assign(id)

JoinSpec == JoinInit /\ [][JoinNext]_vars

----------------------------------------------------------------------------
(* The chat: sendMessage, fetchMessages and the realtime INSERT handler in   *)
(* the clients that have opened the room.                                    *)

MaxMessages == 2

\* the characters of the texts typed into the chat
TextChars == {" ", "a"}

\* the texts passed to sendMessage, as sequences of characters
Texts == UNION {[1..n -> TextChars] : n \in 0..2}

RECURSIVE trimStart(_)
trimStart(s) == IF s # <<>> /\ Head(s) = " " THEN trimStart(Tail(s)) ELSE s

RECURSIVE trimEnd(_)
trimEnd(s) ==
  IF s # <<>> /\ s[Len(s)] = " " THEN trimEnd(SubSeq(s, 1, Len(s) - 1)) ELSE s

\* message.trim()
trim(s) == trimEnd(trimStart(s))

\* the clients have opened the room one after the other; none has fetched the
\* messages or subscribed to the channel yet
ChatInit ==
  /\ gameState = createInitialGameState(10)
  /\ ret = "none"
  /\ stored = rowAfterJoins(Len(JoinOrder))
  /\ clients = joinedClients
  /\ writes = {}
  /\ log = <<>>
  /\ seen = [id \in ClientIds |-> 0]
  /\ issued = 0
  /\ timers = unsetTimers
  /\ ticks = 0
  /\ wasOver = {}
  /\ timedOut = <<>>
  /\ timeControl = TenPlusZero
  /\ joins = notJoining
  /\ chat = noChat

\* lines 466-526: the channel of the client is subscribed; it is notified of the
\* rows inserted from now on
Subscribe(id) ==
  /\ clients[id].loaded
  /\ ~chat.subscribed[id]
  /\ chat' = [chat EXCEPT !.subscribed[id] = TRUE,
                          !.since[id] = Len(chat.table),
                          !.notified[id] = Len(chat.table)]
  /\ UNCHANGED <<roomVars, engineVars, clockVars, timeControl, joins>>

\* fetchMessages, lines 245-249: the select returns the rows of the table in the
\* order of created_at
FetchSelect(id) ==
  /\ clients[id].loaded
  /\ chat.fetch[id].pc = "start"
  /\ chat' = [chat EXCEPT !.fetch[id] = [pc |-> "selected", data |-> chat.table]]
  /\ UNCHANGED <<roomVars, engineVars, clockVars, timeControl, joins>>

\* fetchMessages, lines 256-262: setMessages(data.map(...))
FetchApply(id) ==
  /\ chat.fetch[id].pc = "selected"
  /\ chat' = [chat EXCEPT !.messages[id] = chat.fetch[id].data,
                          !.fetch[id] = [pc |-> "done", data |-> <<>>]]
  /\ UNCHANGED <<roomVars, engineVars, clockVars, timeControl, joins>>

\* sendMessage, lines 444-463: the insert of a message that is not blank
SendMessage(id) ==
  /\ clients[id].loaded
  /\ Len(chat.table) < MaxMessages
  /\ \E message \in Texts :
       /\ trim(message) # <<>>
       /\ chat' = [chat EXCEPT !.table =
                     Append(@, [id |-> Len(chat.table) + 1,
                                sender_name |-> id,
                                message |-> trim(message),
                                is_spectator |-> clients[id].playerColor = NoColor])]
  /\ UNCHANGED <<roomVars, engineVars, clockVars, timeControl, joins>>

\* the realtime INSERT handler, lines 504-522: setMessages(prev => [...prev, m])
\* for the next inserted row
InsertNotify(id) ==
  /\ chat.subscribed[id]
  /\ chat.notified[id] < Len(chat.table)
  /\ chat' = [chat EXCEPT !.messages[id] = Append(@, chat.table[chat.notified[id] + 1]),
                          !.notified[id] = @ + 1]
  /\ UNCHANGED <<roomVars, engineVars, clockVars, timeControl, joins>>

\* the clients whose message list is followed; every client sends messages
Readers == {"p2"}

ChatNext ==
  \/ \E id \in Readers : Subscribe(id)
  \/ \E id \in Readers : FetchSelect(id)
  \/ \E id \in Readers : FetchApply(id)
  \/ \E id \in ClientIds : SendMessage(id)
  \/ \E id \in Readers : InsertNotify(id)

ChatSpec == ChatInit /\ [][ChatNext]_vars

----------------------------------------------------------------------------
(* Properties of the engine, checked under Spec unless said otherwise.      *)

\* the state gameState is the one returned by the last accepted call, and the
\* player who made it
mover == Opponent(gameState.turn)

\* the squares that hold a piece of color
PiecesOf(board, color) == {sq \in Squares : getPiece(board, sq).color = color}

\* C1: every call of makeMove (and the calls of getLegalMoves and isInCheck it
\* makes) returns on every board reachable from the initial position: no call
\* ends in the RangeError of an unbounded recursion between isSquareAttacked
\* and the castling branch of getRawMoves.
C1_CallsReturn == ret # "threw"

\* C2: after an accepted makeMove the king of the player who just moved is not
\* in check on the resulting board.
C2_MoverNotInCheck ==
  ret = "state" => isInCheck(gameState.board, mover) = Returned(FALSE)

TerminalStatus == {"checkmate", "stalemate", "draw", "resigned"}

\* how makeMove(state, from, to, promotion) ends, for every from, to and promotion
AllCallsEndAs(state, kinds) ==
  \A from \in Squares :
    \A legalMoves \in {getLegalMoves(state.board, from, state.enPassantTarget)} :
      \A to \in Squares :
        \A promotion \in PromotionArgs(state, from, to) :
          makeMoveWith(state, from, to, promotion, legalMoves).kind \in kinds

\* C3 (under SessionSpec): in a state whose status is checkmate, stalemate, draw
\* or resigned, however it was set, makeMove returns null for every from, to
\* and promotion.
C3_TerminalRejectsAll ==
  gameState.status \in TerminalStatus => AllCallsEndAs(gameState, {"null"})

\* C4: makeMove returns null when there is no piece at from, when the piece at
\* from is not of the color to move, or when to is not among the legal moves of
\* the piece; the state the caller passed is then what it was before the call.
C4_RejectedCalls ==
  \A from \in CallFroms(gameState) :
    \A legalMoves \in {getLegalMoves(gameState.board, from, gameState.enPassantTarget)} :
      \A to \in CallTos(gameState, from) :
        \A promotion \in PromotionArgs(gameState, from, to) :
          LET piece == getPiece(gameState.board, from)
              r == makeMoveWith(gameState, from, to, promotion, legalMoves)
          IN (\/ piece = NoPiece
              \/ piece.color # gameState.turn
              \/ (~legalMoves.threw /\ to \notin legalMoves.value))
             => (r.kind = "null" /\ r.state = gameState)

\* a call was rejected in a position where every from and every to is tried
C4_Witness ==
  /\ ret = "null"
  /\ InFreePlay(gameState)
  /\ \E sq \in Squares : getPiece(gameState.board, sq) = NoPiece
  /\ \E sq \in Squares : getPiece(gameState.board, sq).color = mover

\* C5: every accepted call returns a state whose turn is the opposite of the
\* input turn and whose moves are the input moves with one move appended; in
\* every reachable state turn is white exactly when the number of moves is even.
C5_TurnAlternates ==
  /\ [](gameState.turn = "white" <=> Len(gameState.moves) % 2 = 0)
  /\ [][ret' = "state" =>
          /\ gameState'.turn = Opponent(gameState.turn)
          /\ Len(gameState'.moves) = Len(gameState.moves) + 1
          /\ SubSeq(gameState'.moves, 1, Len(gameState.moves)) = gameState.moves]_vars

\* both players have made accepted moves
C5_Witness == ret = "state" /\ Len(gameState.moves) >= 3

\* the player to move has no legal move on the board of the state
NoLegalMove(state) ==
  \A sq \in PiecesOf(state.board, state.turn) :
    getLegalMoves(state.board, sq, state.enPassantTarget) = Returned({})

\* C6: after an accepted makeMove the status is checkmate with the mover as
\* winner iff the next player has no legal move and is in check, stalemate with
\* no winner iff the next player has no legal move and is not in check, and
\* playing with no winner otherwise.
C6_StatusAfterMove ==
  ret = "state" =>
    LET noLegalMove == NoLegalMove(gameState)
        inCheck == isInCheck(gameState.board, gameState.turn)
    IN /\ (gameState.status = "checkmate" /\ gameState.winner = mover)
            <=> (noLegalMove /\ inCheck = Returned(TRUE))
       /\ (gameState.status = "stalemate" /\ gameState.winner = Undefined)
            <=> (noLegalMove /\ inCheck = Returned(FALSE))
       /\ ~noLegalMove => (gameState.status = "playing" /\ gameState.winner = Undefined)
       /\ gameState.status \in {"checkmate", "stalemate", "playing"}

\* an accepted move has left the next player without a legal move and not in check
C6_Witness ==
  /\ ret = "state"
  /\ gameState.status = "stalemate"
  /\ History(gameState) = StalemateLine

\* C7: from the initial state f2-f3, e7-e5, g2-g4, Qd8-h4 is accepted move by
\* move, the states after the first three moves have status playing, and the
\* last state has status checkmate with winner black.
C7_FoolsMate ==
  \A k \in 0..Len(FoolsMate) :
    History(gameState) = SubSeq(FoolsMate, 1, k) =>
      /\ k \in 1..3 => gameState.status = "playing"
      /\ k < Len(FoolsMate) =>
           makeMove(gameState, FoolsMate[k + 1][1], FoolsMate[k + 1][2], Undefined).kind
             = "state"
      /\ k = Len(FoolsMate) =>
           (gameState.status = "checkmate" /\ gameState.winner = "black")

\* the four moves have been played
C7_Witness ==
  /\ History(gameState) = FoolsMate
  /\ gameState.status = "checkmate"
  /\ gameState.lastMove.piece.type = "queen"

\* the number of kings of color on the board
Kings(board, color) ==
  Cardinality({sq \in PiecesOf(board, color) : getPiece(board, sq).type = "king"})

\* C8: in every state reached by accepted calls, with any promotion argument of
\* type PieceType, the board holds exactly one white king and one black king.
C8_OneKingEach ==
  \A color \in PieceColor : Kings(gameState.board, color) = 1

\* the sign of n
Sign(n) == IF n > 0 THEN 1 ELSE IF n < 0 THEN -1 ELSE 0

\* the squares strictly between from and to on their row, column or diagonal are empty
LineIsClear(board, from, to) ==
  LET dr == to.row - from.row
      dc == to.col - from.col
      n == IF Abs(dr) > Abs(dc) THEN Abs(dr) ELSE Abs(dc)
  IN \A k \in 1..(n - 1) :
       board[from.row + k * Sign(dr)][from.col + k * Sign(dc)] = NoPiece

\* the rules of chess: the piece on from attacks the square to
PieceAttacks(board, from, to) ==
  LET piece == getPiece(board, from)
      dr == to.row - from.row
      dc == to.col - from.col
      straight == (dr = 0) # (dc = 0)
      diagonal == Abs(dr) = Abs(dc) /\ dr # 0
  IN CASE piece.type = "pawn" -> dr = forwardDirection(piece.color) /\ Abs(dc) = 1
       [] piece.type = "knight" -> {Abs(dr), Abs(dc)} = {1, 2}
       [] piece.type = "king" -> {Abs(dr), Abs(dc)} \in {{0, 1}, {1}}
       [] piece.type = "rook" -> straight /\ LineIsClear(board, from, to)
       [] piece.type = "bishop" -> diagonal /\ LineIsClear(board, from, to)
       [] piece.type = "queen" -> (straight \/ diagonal) /\ LineIsClear(board, from, to)
       [] OTHER -> FALSE

\* the rules of chess: a piece of color attacks the square to
AttackedBy(board, to, color) ==
  \E from \in PiecesOf(board, color) : PieceAttacks(board, from, to)

\* no move of the game has left from sq or arrived on it: the piece that stood
\* on sq in the initial position stands there and has never moved
NeverMoved(state, sq) ==
  \A i \in 1..Len(state.moves) : state.moves[i].from # sq /\ state.moves[i].to # sq

\* the rules of chess: the player to move may castle to the side of step
\* (1 towards column 7, -1 towards column 0)
MayCastle(state, step) ==
  LET row == IF state.turn = "white" THEN 7 ELSE 0
      rookCol == IF step = 1 THEN 7 ELSE 0
      betweenCols == IF step = 1 THEN {5, 6} ELSE {1, 2, 3}
      kingCols == {4, 4 + step, 4 + 2 * step}
  IN /\ NeverMoved(state, Pos(row, 4))
     /\ NeverMoved(state, Pos(row, rookCol))
     /\ \A c \in betweenCols : state.board[row][c] = NoPiece
     /\ \A c \in kingCols : ~AttackedBy(state.board, Pos(row, c), Opponent(state.turn))

\* C9: a two-column king move towards a rook is among the king's legal
\* destinations iff the king has never moved, the rook on that side has never
\* moved, every square between them is empty, and none of the king's start,
\* transit and destination squares is attacked by the opponent.
C9_CastlingLegalIff ==
  \A from \in {sq \in PiecesOf(gameState.board, gameState.turn) :
                 getPiece(gameState.board, sq).type = "king"} :
    \A legalMoves \in {getLegalMoves(gameState.board, from, gameState.enPassantTarget)} :
      \A step \in {1, -1} :
        (~legalMoves.threw /\ Pos(from.row, from.col + 2 * step) \in legalMoves.value)
          <=> (from.col = 4 /\ MayCastle(gameState, step))

\* the move the state was returned for is a castling move
LastMoveCastled(state) ==
  /\ state.lastMove # NoMove
  /\ state.lastMove.piece.type = "king"
  /\ Abs(state.lastMove.to.col - state.lastMove.from.col) = 2

\* C10: an accepted castling move relocates king and rook in the one returned
\* state: kingside the king is on column 6 and the rook on column 5, queenside
\* the king on column 2 and the rook on column 3, their original squares are
\* empty, both have hasMoved set, and the move records the castling side.
C10_CastlingRelocatesBoth ==
  (ret = "state" /\ LastMoveCastled(gameState)) =>
    LET move == gameState.lastMove
        row == move.from.row
        kingside == move.to.col > move.from.col
        king == gameState.board[row][IF kingside THEN 6 ELSE 2]
        rook == gameState.board[row][IF kingside THEN 5 ELSE 3]
    IN /\ move.from.col = 4
       /\ move.to = Pos(row, IF kingside THEN 6 ELSE 2)
       /\ king = [type |-> "king", color |-> mover, hasMoved |-> TRUE]
       /\ rook = [type |-> "rook", color |-> mover, hasMoved |-> TRUE]
       /\ gameState.board[row][4] = NoPiece
       /\ gameState.board[row][IF kingside THEN 7 ELSE 0] = NoPiece
       /\ move.castling = (IF kingside THEN "kingside" ELSE "queenside")
       /\ gameState.moves[Len(gameState.moves)] = move

\* white has castled queenside
C10_Witness ==
  /\ ret = "state"
  /\ LastMoveCastled(gameState)
  /\ gameState.lastMove.castling = "queenside"
  /\ History(gameState) = CastleQueenside

\* the move is a two-square pawn advance
IsDoubleAdvance(move) ==
  move # NoMove /\ move.piece.type = "pawn" /\ Abs(move.to.row - move.from.row) = 2

\* C11: in every reachable state enPassantTarget is present iff the last applied
\* move was a two-square pawn advance, and it is then the square the pawn passed
\* over; after any other accepted move, the reply to a two-square advance
\* included, it is absent.
C11_EnPassantTarget ==
  LET move == gameState.lastMove
  IN IF IsDoubleAdvance(move)
     THEN gameState.enPassantTarget =
            Pos((move.from.row + move.to.row) \div 2, move.from.col)
     ELSE gameState.enPassantTarget = NoPosition

\* a two-square advance has been replied to by a move that is not one
C11_Witness ==
  /\ ret = "state"
  /\ Len(gameState.moves) >= 2
  /\ IsDoubleAdvance(gameState.moves[Len(gameState.moves) - 1])
  /\ ~IsDoubleAdvance(gameState.lastMove)
  /\ gameState.enPassantTarget = NoPosition

\* C12: when a pawn moves diagonally onto enPassantTarget and the move is
\* accepted, the enemy pawn behind the target (the target's column, the capturing
\* pawn's starting row) is removed from the new board, the capturing pawn stands
\* on the target, and the appended move has enPassant true and captured equal to
\* the removed pawn.
C12_EnPassantCapture ==
  [][(/\ ret' = "state"
      /\ Len(gameState'.moves) = Len(gameState.moves) + 1
      /\ gameState.enPassantTarget # NoPosition
      /\ gameState'.lastMove.piece.type = "pawn"
      /\ gameState'.lastMove.to = gameState.enPassantTarget
      /\ gameState'.lastMove.to.col # gameState'.lastMove.from.col)
     => LET move == gameState'.lastMove
            behind == Pos(move.from.row, move.to.col)
            removed == getPiece(gameState.board, behind)
        IN /\ removed.type = "pawn"
           /\ removed.color = gameState'.turn
           /\ getPiece(gameState'.board, behind) = NoPiece
           /\ getPiece(gameState'.board, move.to)
                = [type |-> "pawn", color |-> gameState.turn, hasMoved |-> TRUE]
           /\ getPiece(gameState'.board, move.from) = NoPiece
           /\ move.enPassant
           /\ move.captured = removed
           /\ gameState'.moves[Len(gameState'.moves)] = move]_vars

\* the white pawn on e5 has taken the pawn that advanced d7-d5
C12_Witness ==
  /\ ret = "state"
  /\ History(gameState) = EnPassantLine
  /\ gameState.lastMove.enPassant
  /\ getPiece(gameState.board, Sq("d", 5)) = NoPiece

\* the calls that bring a pawn to row 0 or row 7
Promoting(state, from, to) ==
  getPiece(state.board, from).type = "pawn" /\ to.row \in {0, 7}

PromotingCalls(state) ==
  {call \in Calls(state) : Promoting(state, call[1], call[2])}

\* two results of makeMove are the same: both null, both an exception, or both
\* the same state
SameResult(r1, r2) ==
  /\ r1.kind = r2.kind
  /\ r1.kind = "state" => r1.state = r2.state

ValidPromotions == {"queen", "rook", "bishop", "knight"}

\* the accepted call has put a piece of type on to and recorded it as promotion
PromotedTo(state, r, to, type) ==
  r.kind = "state" =>
    /\ getPiece(r.state.board, to) = [type |-> type, color |-> state.turn, hasMoved |-> TRUE]
    /\ r.state.lastMove.promotion = type
    /\ r.state.moves[Len(r.state.moves)].promotion = type

\* C13: when an accepted move brings a pawn to row 0 or 7, the piece on the
\* destination is of the mover's color and a queen if no promotion argument was
\* given, and of the requested type if the argument is queen, rook, bishop or
\* knight; the move records that type; on any other move a promotion argument
\* has no effect.
C13_PromotionChoice ==
  [](\A from \in CallFroms(gameState) :
        \A legalMoves \in {getLegalMoves(gameState.board, from, gameState.enPassantTarget)} :
          \A to \in CallTos(gameState, from) :
            IF Promoting(gameState, from, to)
            THEN /\ PromotedTo(gameState,
                               makeMoveWith(gameState, from, to, Undefined, legalMoves),
                               to, "queen")
                 /\ \A promotion \in ValidPromotions :
                      PromotedTo(gameState,
                                 makeMoveWith(gameState, from, to, promotion, legalMoves),
                                 to, promotion)
            ELSE \A unread \in {makeMoveWith(gameState, from, to, Undefined, legalMoves)} :
                   \A promotion \in PieceType :
                     SameResult(makeMoveWith(gameState, from, to, promotion, legalMoves),
                                unread))

\* a pawn has been promoted to a knight on request
C13_Witness ==
  /\ ret = "state"
  /\ gameState.lastMove.promotion = "knight"
  /\ getPiece(gameState.board, gameState.lastMove.to).type = "knight"

\* C14: when an accepted move brings a pawn to the last rank and the promotion
\* argument is king or pawn, the pawn is replaced by a queen and the move
\* records promotion queen.
C14_InvalidPromotionIsQueen ==
  \A call \in PromotingCalls(gameState) :
    \A promotion \in PieceType \ ValidPromotions :
      PromotedTo(gameState, makeMove(gameState, call[1], call[2], promotion),
                 call[2], "queen")

\* C15 (under SessionSpec): every state returned by an accepted makeMove has no
\* drawOffer, whatever drawOffer the input state carried.
C15_MoveClearsDrawOffer ==
  \A call \in BookCalls(gameState) :
    LET r == makeMove(gameState, call[1], call[2], Undefined)
    IN r.kind = "state" => r.state.drawOffer = Undefined

----------------------------------------------------------------------------
(* Properties of the room, checked under RoomSpec.                          *)

\* the database applies the update w in this step
Applied(w) == w \in writes /\ w \notin writes' /\ Len(log') = Len(log) + 1

\* the update w is sent in this step
Sent(w) == w \in writes' /\ w \notin writes

\* C16: once the stored game state has a terminal status, no interleaving of
\* moves, resignations, draw actions and timeouts of the clients brings the
\* stored status back to waiting or playing or changes the stored winner.
C16_StoredOutcomeIsFinal ==
  [][stored.game_state.status \in TerminalStatus =>
       /\ stored'.game_state.status \notin {"waiting", "playing"}
       /\ stored'.game_state.winner = stored.game_state.winner]_vars

\* what was stored is still there in the state that replaces it: the moves, and
\* the outcome of a resignation, a draw or a timeout
KeepsWhatWasStored(old, new) ==
  /\ Len(old.moves) <= Len(new.moves)
  /\ SubSeq(new.moves, 1, Len(old.moves)) = old.moves
  /\ old.status \in TerminalStatus => new.status = old.status

\* C17: the stored game state is never overwritten by a state derived from an
\* older version (a move computed from a stale local copy is rejected, not
\* persisted), so no persisted move, resignation, draw or timeout is lost to a
\* concurrent write.
C17_NoStaleOverwrite ==
  [][Len(log') = Len(log) + 1 =>
       KeepsWhatWasStored(stored.game_state, stored'.game_state)]_vars

\* C18: when a move of the active player and a timeout of that player's clock
\* race, the one stored first decides: a move stored after the timeout does not
\* replace it, and a timeout stored after the move does not end the game.
C18_FirstStoredDecides ==
  [][\A w \in writes :
       Applied(w) =>
         /\ (w.kind = "move" /\ stored.game_state.status = "checkmate")
              => stored'.game_state = stored.game_state
         /\ (w.kind = "timeout" /\ Len(stored.game_state.moves) > Len(w.game_state.moves))
              => stored'.game_state.status = stored.game_state.status]_vars

\* no two consecutive moves of the list are by the same color
ColorsAlternate(moves) ==
  \A i \in 1..(Len(moves) - 1) : moves[i].piece.color # moves[i + 1].piece.color

\* C19: a client's move is passed to the engine and persisted only if the
\* client holds a player color and that color is the turn of its game state;
\* the stored move list never contains two consecutive moves by the same color.
C19_OnlyThePlayerToMove ==
  /\ [](ColorsAlternate(stored.game_state.moves))
  /\ [][\A w \in writes' :
          (Sent(w) /\ w.kind = "move") =>
            /\ clients[w.client].playerColor \in PieceColor
            /\ clients[w.client].playerColor = clients[w.client].gameState.turn
            /\ w.game_state.lastMove.piece.color = clients[w.client].playerColor]_vars

\* a move of white and a move of black have been stored
C19_Witness ==
  /\ Len(stored.game_state.moves) = 2
  /\ stored.game_state.moves[1].piece.color = "white"
  /\ stored.game_state.moves[2].piece.color = "black"
  /\ clients["p1"].playerColor = "white"
  /\ clients["p2"].playerColor = "black"

\* C20: a client that opened the room with its spectator code is never given a
\* color and never changes the stored game state through its move, resign, draw
\* or timeout paths.
C20_SpectatorNeverWrites ==
  /\ [](\A id \in ClientIds :
          RoomCodeOf[id] = "spectator" => clients[id].playerColor = NoColor)
  /\ [][\A w \in writes : Applied(w) => RoomCodeOf[w.client] # "spectator"]_vars

\* what a client reads back of a game state it has stored
RoundTrip(state) == parseGameState(toJson(state))

\* C21: storing a reachable game state and reading it back, on room load or on a
\* realtime update, gives a state equal to the stored one in every field: the
\* drawOffer when one is set, the clocks, and the absence of optional fields.
C21_RoundTripIsLossless ==
  \A id \in ClientIds :
    clients[id].loaded => RoundTrip(clients[id].gameState) = clients[id].gameState

-----------------------------------------------------------------------------
(* Properties of the clocks, checked under ClockSpec.                        *)

\* the step takes time off the clock of color in the client id
Decreased(id, color) == clockOf(timers'[id], color) < clockOf(timers[id], color)

\* a clock is decreased only in a client whose game is being played, and it is
\* the clock of the color to move
DecreasedWhilePlaying ==
  \A id \in ClientIds : \A color \in PieceColor :
    Decreased(id, color) =>
      /\ clients[id].loaded
      /\ clients[id].gameState.status = "playing"
      /\ clients[id].gameState.turn = color

\* C22: a client's clocks decrease only while the status of its game is playing,
\* and only the clock of the color to move decreases; once the status has left
\* playing neither clock is decreased again; a clock never goes below 0.
C22_ClocksRunOnlyWhilePlaying ==
  /\ [](\A id \in ClientIds : timers[id].whiteTime >= 0 /\ timers[id].blackTime >= 0)
  /\ [][DecreasedWhilePlaying]_vars
  /\ [][\A id \in ClientIds : \A color \in PieceColor :
          Decreased(id, color) => id \notin wasOver]_vars

\* the client that plays color
PlayerOf(color) == CHOOSE id \in ClientIds : clients[id].playerColor = color

\* the step is fetchRoom by the client id
Opens(id) == ~clients[id].loaded /\ clients'[id].loaded

\* C23: whiteTime and blackTime of the stored game state are the seconds each
\* color has left: once a move is stored, the mover's stored clock is the clock
\* the mover's client holds (time consumed taken off, increment added), and a
\* client that opens the room later starts its clocks from what the players
\* have left, not from the initial budget.
C23_StoredClocksAreRemainingTime ==
  /\ [][\A w \in writes :
          (Applied(w) /\ w.kind = "move") =>
            \A color \in {clients[w.client].playerColor} :
              clockOf(stored'.game_state, color) = clockOf(timers'[w.client], color)]_vars
  /\ [][\A id \in ClientIds :
          Opens(id) =>
            \A color \in PieceColor :
              clockOf(timers'[id], color) = clockOf(timers[PlayerOf(color)], color)]_vars

-----------------------------------------------------------------------------
(* Properties of createInitialGameState and parseTimeControl, checked under  *)
(* CreateSpec.                                                               *)

\* the piece types of columns 0 to 7 of a back rank
BackRank == <<"rook", "knight", "bishop", "queen", "king", "bishop", "knight", "rook">>

IsPiece(piece, type, color) == piece.type = type /\ piece.color = color

\* C24: createInitialGameState returns turn white, status waiting, no moves, no
\* enPassantTarget, winner or drawOffer, and a board with 8 black pawns on row 1,
\* 8 white pawns on row 6, rows 2 to 5 empty, and rook, knight, bishop, queen,
\* king, bishop, knight, rook on columns 0 to 7 of row 0 (black) and of row 7
\* (white); for "10+0" both clocks are 600.
C24_InitialGameState ==
  /\ gameState.turn = "white"
  /\ gameState.status = "waiting"
  /\ gameState.moves = <<>>
  /\ gameState.lastMove = NoMove
  /\ gameState.enPassantTarget = NoPosition
  /\ gameState.winner = Undefined
  /\ gameState.drawOffer = Undefined
  /\ \A c \in 0..7 :
       /\ IsPiece(gameState.board[0][c], BackRank[c + 1], "black")
       /\ IsPiece(gameState.board[1][c], "pawn", "black")
       /\ \A r \in 2..5 : gameState.board[r][c] = NoPiece
       /\ IsPiece(gameState.board[6][c], "pawn", "white")
       /\ IsPiece(gameState.board[7][c], BackRank[c + 1], "white")
  /\ timeControl = TenPlusZero => (gameState.whiteTime = 600 /\ gameState.blackTime = 600)

\* a game has been created with "10+0"
C24_Witness ==
  /\ timeControl = TenPlusZero
  /\ gameState.whiteTime = 600
  /\ IsPiece(gameState.board[7][4], "king", "white")

IsDigits(s) == \A i \in 1..Len(s) : s[i] \in {"0", "1"}

\* tc is "<minutes>+<incrementSeconds>" with a positive integer for minutes
WellFormed(tc) ==
  /\ Len(split(tc)) = 2
  /\ \A i \in 1..2 : split(tc)[i] # <<>> /\ IsDigits(split(tc)[i])
  /\ decimal(split(tc)[1]) > 0

\* tc has no minutes or minutes that are not a number, or no '+', or an
\* increment that is not a number
Malformed(tc) ==
  \/ split(tc)[1] = <<>>
  \/ ~IsDigits(split(tc)[1])
  \/ Len(split(tc)) = 1
  \/ ~IsDigits(split(tc)[2])

\* C25: for a time control "<minutes>+<incrementSeconds>" with positive integer
\* minutes, createInitialGameState sets both clocks to minutes * 60 and
\* parseTimeControl returns these minutes and this increment; for a malformed
\* string (no minutes or minutes that are not a number, no '+', an increment that
\* is not a number) the result is the default 10+0: both clocks 600, increment 0.
C25_TimeControlOrDefault ==
  /\ WellFormed(timeControl) =>
       /\ gameState.whiteTime = decimal(split(timeControl)[1]) * 60
       /\ gameState.blackTime = decimal(split(timeControl)[1]) * 60
       /\ parseTimeControl(timeControl) =
            [minutes |-> decimal(split(timeControl)[1]),
             increment |-> decimal(split(timeControl)[2])]
  /\ Malformed(timeControl) =>
       /\ gameState.whiteTime = 600
       /\ gameState.blackTime = 600
       /\ parseTimeControl(timeControl) = [minutes |-> 10, increment |-> 0]

-----------------------------------------------------------------------------
(* Properties of the notation and of the pawn's moves, checked under Spec.   *)

FileName == <<"a", "b", "c", "d", "e", "f", "g", "h">>

\* the rank of a row: 8 minus the row
RankName == <<"8", "7", "6", "5", "4", "3", "2", "1">>

LetterOf ==
  [type \in PieceType |->
     CASE type = "king" -> "K" [] type = "queen" -> "Q" [] type = "rook" -> "R"
       [] type = "bishop" -> "B" [] type = "knight" -> "N" [] type = "pawn" -> ""]

\* the notation of the move from from to to that makeMove accepted in state
\* before and that led to state after, read off the two boards
NotationOf(before, after, from, to) ==
  LET piece == getPiece(before.board, from)
      isCapture == \/ getPiece(before.board, to) # NoPiece
                   \/ (piece.type = "pawn" /\ to = before.enPassantTarget)
      isPromotion == piece.type = "pawn" /\ to.row \in {0, 7}
  IN IF piece.type = "king" /\ to.col - from.col = 2 THEN "O-O"
     ELSE IF piece.type = "king" /\ from.col - to.col = 2 THEN "O-O-O"
     ELSE LetterOf[piece.type]
          \o (IF isCapture /\ piece.type = "pawn" THEN FileName[from.col + 1] ELSE "")
          \o (IF isCapture THEN "x" ELSE "")
          \o FileName[to.col + 1] \o RankName[to.row + 1]
          \o (IF isPromotion THEN "=" \o LetterOf[getPiece(after.board, to).type] ELSE "")

\* C26: the notation of every appended move is O-O for kingside and O-O-O for
\* queenside castling; otherwise the piece letter (none for a pawn), then on a
\* capture (en passant included) the source file for pawns followed by x, then
\* the destination file and rank, then = and the letter of the promoted type on
\* a promotion, and nothing else.
C26_Notation ==
  [][ret' = "state" /\ Len(gameState'.moves) = Len(gameState.moves) + 1 =>
       \A move \in {gameState'.lastMove} :
         /\ move.notation = NotationOf(gameState, gameState', move.from, move.to)
         /\ gameState'.moves[Len(gameState'.moves)].notation = move.notation]_vars

\* a pawn has captured on g8 and been promoted to a knight
C26_Witness ==
  /\ ret = "state"
  /\ gameState.lastMove.notation = "hxg8=N"

\* the square n steps ahead of pos for a pawn of color: white moves toward row 0
Ahead(color, pos, n) == Pos(IF color = "white" THEN pos.row - n ELSE pos.row + n, pos.col)

IsEmpty(board, sq) == sq \in Squares /\ board[sq.row][sq.col] = NoPiece

\* the destinations of the pawn on pos in state, as the rules give them
PawnDestinations(state, pos) ==
  LET pawn == state.board[pos.row][pos.col]
      one == Ahead(pawn.color, pos, 1)
      two == Ahead(pawn.color, pos, 2)
      diagonals == {Pos(one.row, pos.col - 1), Pos(one.row, pos.col + 1)} \cap Squares
  IN {sq \in Squares :
        \/ sq = one /\ IsEmpty(state.board, one)
        \/ /\ sq = two
           /\ pos.row = (IF pawn.color = "white" THEN 6 ELSE 1)
           /\ IsEmpty(state.board, one)
           /\ IsEmpty(state.board, two)
        \/ /\ sq \in diagonals
           /\ state.board[sq.row][sq.col].color = Opponent(pawn.color)
        \/ /\ sq \in diagonals
           /\ sq = state.enPassantTarget}

PawnSquares(state) == {pos \in Squares : state.board[pos.row][pos.col].type = "pawn"}

\* C27: the pseudo-legal destinations of a pawn are exactly the square one step
\* forward if it is empty, the square two steps forward if the pawn is on its
\* starting row and both squares ahead are empty, each forward-diagonal square
\* that holds an enemy piece, and the forward-diagonal square that is the
\* en-passant target; never a square behind or beside it, nor an occupied square
\* ahead.
C27_PawnDestinations ==
  \A pos \in PawnSquares(gameState) :
    getRawMoves(gameState.board, pos, gameState.enPassantTarget, {})
      = Returned(PawnDestinations(gameState, pos))

\* a pawn may capture en passant, another may advance two squares, and a third
\* is blocked
C27_Witness ==
  /\ gameState.enPassantTarget \in Squares
  /\ \E pos \in PawnSquares(gameState) :
       gameState.enPassantTarget \in PawnDestinations(gameState, pos)
  /\ \E pos \in PawnSquares(gameState) :
       Ahead(gameState.board[pos.row][pos.col].color, pos, 2) \in PawnDestinations(gameState, pos)
  /\ \E pos \in PawnSquares(gameState) :
       ~IsEmpty(gameState.board, Ahead(gameState.board[pos.row][pos.col].color, pos, 1))

-----------------------------------------------------------------------------
(* Properties of the handlers, checked under ClockSpec and RoomSpec.         *)

\* the step is the failure of the update w
Failed(w) == w \in writes /\ w \notin writes' /\ Len(log') = Len(log)

\* state is one from which the move stored in game_state is accepted and leads
\* to game_state
IsBeforeMove(state, game_state) ==
  \E r \in {makeMove(state, game_state.lastMove.from, game_state.lastMove.to, Undefined)} :
    r.kind = "state" /\ toJson(r.state) = game_state

\* C28: if persisting an accepted move fails, the client's local game state is
\* put back to the state it had before the move, no increment is added to the
\* mover's clock (makeChessMove reports the failure), and the stored game state
\* is not changed by the failed attempt.
C28_FailedMoveIsRolledBack ==
  [][\A w \in writes :
       (Failed(w) /\ w.kind = "move") =>
         /\ clients'[w.client].gameState = w.rollback
         /\ IsBeforeMove(clients'[w.client].gameState, w.game_state)
         /\ timers' = timers
         /\ stored' = stored]_vars

\* the first move of the game was not persisted: white's client is back at the
\* initial position with its initial clock
C28_Witness ==
  /\ issued = 1
  /\ writes = {}
  /\ log = <<>>
  /\ clients["p1"].gameState.moves = <<>>
  /\ clients["p1"].gameState.status = "waiting"
  /\ timers["p1"].whiteTime = 600

\* the update w is one of a client that has been notified of every stored update
SentUpToDate(w) == Sent(w) /\ seen[w.client] = Len(log)

\* what the draw handlers do to the state of the client that calls them
DrawHandlersAct ==
  \A w \in writes' :
    Sent(w) =>
      \A client \in {clients[w.client]} :
        /\ w.kind = "offer" =>
             /\ client.gameState.status = "playing"
             /\ client.gameState.drawOffer = Undefined
             /\ w.game_state =
                  toJson([client.gameState EXCEPT !.drawOffer = client.playerColor])
        /\ w.kind = "decline" =>
             w.game_state = toJson([client.gameState EXCEPT !.drawOffer = Undefined])
        /\ w.kind = "accept" =>
             w.game_state = toJson([client.gameState EXCEPT !.status = "draw",
                                                            !.winner = Undefined,
                                                            !.drawOffer = Undefined])

\* C29: at most one draw offer is pending at a time: an offer made while a
\* drawOffer is present is refused and leaves the state unchanged; an offer sets
\* drawOffer to the offering player's color, and only while status is playing;
\* declining clears drawOffer and leaves status, turn, board and moves as they
\* are; accepting sets status to draw with no winner and no drawOffer.
C29_OneDrawOfferAtATime ==
  /\ [][DrawHandlersAct]_vars
  /\ [][\A w \in writes' :
          (SentUpToDate(w) /\ w.kind = "offer") =>
            stored.game_state.drawOffer = Undefined]_vars

\* the step brings the clock of the color to move from a positive value to 0 in
\* the client id, whose game is being played
FlagFalls(id, color) ==
  /\ clients[id].loaded
  /\ clients[id].gameState.status = "playing"
  /\ clients[id].gameState.turn = color
  /\ clockOf(timers[id], color) > 0
  /\ clockOf(timers'[id], color) = 0

\* the step declares a timeout of color in the client id: onTimeout is called,
\* the client's game is over with the other color as winner, and that state is
\* sent to be stored
Declares(id, color) ==
  /\ timedOut' = Append(timedOut, [client |-> id, loser |-> color])
  /\ clients'[id].gameState.status \notin {"waiting", "playing"}
  /\ clients'[id].gameState.winner = Opponent(color)
  /\ \E w \in writes' : /\ Sent(w)
                        /\ w.client = id
                        /\ w.game_state = toJson(clients'[id].gameState)

\* C30: when the clock of the color to move goes from a positive value to 0
\* while status is playing, a timeout is declared exactly once for that color
\* and the game state becomes terminal with the other color as winner; no
\* timeout is declared for the color that is not to move, or while status is not
\* playing.
C30_TimeoutDeclaredOnce ==
  /\ [][\A id \in ClientIds : \A color \in PieceColor :
          FlagFalls(id, color) => Declares(id, color)]_vars
  /\ [][timedOut' # timedOut =>
          \E id \in ClientIds : \E color \in PieceColor :
            FlagFalls(id, color) /\ Declares(id, color)]_vars
  /\ [](\A i, j \in 1..Len(timedOut) : timedOut[i].loser = timedOut[j].loser => i = j)

----------------------------------------------------------------------------
(* Properties of the increment                                              *)

\* the update w is the one of a move made by the player of color
MoveOf(w, color) == w.kind = "move" /\ clients[w.client].playerColor = color

\* C31: when the update of a move by color c is applied, c's clock, in every
\* client that has opened the room, is increased by exactly the increment of the
\* room's time control and the clock of the opponent is left as it is; a clock
\* is increased by nothing else, so once per move; a move whose update fails
\* changes no clock.
C31_IncrementOncePerMove ==
  /\ [][\A w \in writes : \A color \in PieceColor :
          Applied(w) /\ MoveOf(w, color) =>
            \A id \in ClientIds : clients[id].loaded =>
              /\ clockOf(timers'[id], color) = clockOf(timers[id], color) + Increment
              /\ clockOf(timers'[id], Opponent(color)) = clockOf(timers[id], Opponent(color))]_vars
  /\ [][\A id \in ClientIds : \A color \in PieceColor :
          clients[id].loaded /\ clockOf(timers'[id], color) > clockOf(timers[id], color) =>
            \E w \in writes : Applied(w) /\ MoveOf(w, color)]_vars
  /\ [][\A w \in writes : Failed(w) => timers' = timers]_vars

----------------------------------------------------------------------------
(* Properties of the attack detection                                       *)

Pawns(board) == {sq \in Squares : getPiece(board, sq).type = "pawn"}

\* isSquareAttacked(board, pos, defender) finds pos among the raw moves of the
\* pawn on from (lines 299-300; getRawMoves is called without enPassantTarget)
TreatedAsAttackedBy(board, from, pos) ==
  pos \in pawnMoves(board, from, getPiece(board, from), NoPosition)

\* the king's start, transit and destination squares of the castling to the
\* side of step
KingPath(row, step) == {Pos(row, 4), Pos(row, 4 + step), Pos(row, 4 + 2 * step)}

\* an enemy pawn could capture on a square of the king's path
PawnCapturesOn(state, step) ==
  \E from \in Pawns(state.board) :
    /\ getPiece(state.board, from).color = Opponent(state.turn)
    /\ \E pos \in KingPath(IF state.turn = "white" THEN 7 ELSE 0, step) :
         PieceAttacks(state.board, from, pos)

\* C32: on every reachable board, a square is treated as attacked by a pawn
\* exactly when the pawn stands one row behind it, in its direction of travel,
\* on an adjacent column, occupied or not, and so never the square straight
\* ahead; the king of the player to move has no castling destination when an
\* enemy pawn could capture on its start, transit or destination square, and
\* has one whenever the rules of chess allow castling.
C32_PawnAttacksDiagonally ==
  /\ \A from \in Pawns(gameState.board) : \A pos \in Squares :
       TreatedAsAttackedBy(gameState.board, from, pos)
         <=> PieceAttacks(gameState.board, from, pos)
  /\ \A from \in {sq \in PiecesOf(gameState.board, gameState.turn) :
                    getPiece(gameState.board, sq).type = "king" /\ sq.col = 4} :
       \A legalMoves \in {getLegalMoves(gameState.board, from, gameState.enPassantTarget)} :
         \A step \in {1, -1} :
           /\ (~legalMoves.threw /\ Pos(from.row, 4 + 2 * step) \in legalMoves.value)
                => ~PawnCapturesOn(gameState, step)
           /\ MayCastle(gameState, step)
                => (~legalMoves.threw /\ Pos(from.row, 4 + 2 * step) \in legalMoves.value)

----------------------------------------------------------------------------
(* Frame of makeMove                                                        *)

\* the squares a move from from to to may change on the board of state: from
\* and to, the rook's corner and the square next to the king when the king
\* castles, and the square of the captured pawn when a pawn captures en passant
\* (a diagonal pawn move onto an empty square)
MayChange(state, from, to) ==
  LET piece == getPiece(state.board, from)
      castles == piece.type = "king" /\ Abs(to.col - from.col) = 2
      enPassant == /\ piece.type = "pawn"
                   /\ to.col # from.col
                   /\ getPiece(state.board, to) = NoPiece
  IN {from, to}
     \cup (IF castles
           THEN {Pos(from.row, IF to.col > from.col THEN 7 ELSE 0),
                 Pos(from.row, IF to.col > from.col THEN 5 ELSE 3)}
           ELSE {})
     \cup (IF enPassant THEN {Pos(from.row, to.col)} ELSE {})

\* C33: an accepted makeMove changes only the from and to squares of the board,
\* the rook's two squares when castling and the captured pawn's square on en
\* passant; every other square keeps its piece and the piece's hasMoved flag,
\* and whiteTime and blackTime are those of the state passed in.
C33_MoveFrame ==
  [][ret' = "state" =>
       /\ \A sq \in Squares \ MayChange(gameState, gameState'.lastMove.from,
                                        gameState'.lastMove.to) :
            gameState'.board[sq.row][sq.col] = gameState.board[sq.row][sq.col]
       /\ gameState'.whiteTime = gameState.whiteTime
       /\ gameState'.blackTime = gameState.blackTime]_vars

\* the king has castled queenside: the rook has left a1 for d1, and the knight
\* on b8 is the one of the initial position
C33_Witness ==
  /\ ret = "state"
  /\ gameState.lastMove.castling = "queenside"
  /\ getPiece(gameState.board, Sq("a", 1)) = NoPiece
  /\ getPiece(gameState.board, Sq("d", 1)).type = "rook"
  /\ getPiece(gameState.board, Sq("b", 8)) = createInitialBoard[0][1]

----------------------------------------------------------------------------
(* Properties of the winner                                                 *)

Decided == {"checkmate", "resigned"}

\* C34: in every game state reached through moves, resignations, draw actions
\* and timeouts, winner is present iff the status is checkmate or resigned (so
\* never with waiting, playing, stalemate or draw), and a state with a terminal
\* status and a winner keeps that winner.
C34_WinnerIffDecided ==
  /\ [](gameState.winner # Undefined <=> gameState.status \in Decided)
  /\ [][gameState.status \in TerminalStatus /\ gameState.winner # Undefined
          => gameState'.winner = gameState.winner]_vars

----------------------------------------------------------------------------
(* Properties of the draw by agreement                                      *)

\* the client id sends an update in this step that ends its game as a draw
AcceptsDraw(id) ==
  /\ \E w \in writes' \ writes : w.client = id
  /\ clients[id].gameState.status # "draw"
  /\ clients'[id].gameState.status = "draw"

\* the game state holds a draw offer made by the opponent of color
OfferedTo(state, color) == state.drawOffer # Undefined /\ state.drawOffer = Opponent(color)

OfferStored(color) == stored.game_state.drawOffer = color

\* the client id holds a game state with a draw offer by color
Shows(id, color) == clients[id].loaded /\ clients[id].gameState.drawOffer = color

\* C36: once a draw offer by a player is stored, the opponent's client comes to
\* hold a game state whose drawOffer is the offerer's color, unless the offer
\* leaves the stored state first; and the offerer's own client, while it shows
\* its offer and the offer stays stored, goes on showing it through every step
\* that is not one of its own handlers.
C36_DrawOfferReachesOpponent ==
  /\ \A color \in PieceColor :
       OfferStored(color)
         ~> (Shows(PlayerOf(Opponent(color)), color) \/ ~OfferStored(color))
  /\ [][\A color \in PieceColor :
          (/\ Shows(PlayerOf(color), color)
           /\ OfferStored(color) /\ OfferStored(color)'
           /\ \A w \in writes' \ writes : w.client # PlayerOf(color))
            => Shows(PlayerOf(color), color)']_vars

----------------------------------------------------------------------------
(* Properties of joining, checked under JoinSpec.                           *)

Holders(color) == {id \in Joiners : joins[id].playerColor = color}

Refused == {id \in Joiners : joins[id].error = "Room is full"}

\* C37: whatever the interleaving of the clients that join with the player
\* code, at most one of them holds white and at most one holds black, the
\* holder of a color is the client the row names for it, and once all have
\* joined one holds white, one holds black and every other one was refused
\* with 'Room is full'.
C37_OneClientPerColor ==
  /\ \A color \in PieceColor : Cardinality(Holders(color)) <= 1
  /\ Holders("white") \subseteq {stored.player_white_id}
  /\ Holders("black") \subseteq {stored.player_black_id}
  /\ (\A id \in Joiners : joins[id].pc = "done") =>
       /\ Cardinality(Holders("white")) = 1
       /\ Cardinality(Holders("black")) = 1
       /\ Refused = Joiners \ (Holders("white") \cup Holders("black"))

----------------------------------------------------------------------------
(* Convergence of the clients of a room                                     *)

\* no update is on its way and every client has been notified of every update
\* the database has applied
Quiescent == writes = {} /\ \A id \in ClientIds : seen[id] = Len(log)

\* the fields of a game state the clients show
Shown(state) ==
  [board |-> state.board, turn |-> state.turn, status |-> state.status,
   moves |-> state.moves, winner |-> state.winner, drawOffer |-> state.drawOffer]

\* C38: when every update has been applied or has failed and every notification
\* has been delivered, the game state of each client that has opened the room
\* equals the stored game state in board, turn, status, moves, winner and
\* drawOffer; so no client goes on showing a resignation, a draw or a timeout
\* whose update failed.
C38_ClientsConverge ==
  Quiescent =>
    \A id \in ClientIds :
      clients[id].loaded => Shown(clients[id].gameState) = Shown(stored.game_state)

----------------------------------------------------------------------------
(* Properties of the chat, checked under ChatSpec.                          *)

\* how many times the message m is in the list
Times(list, m) == Cardinality({i \in 1..Len(list) : list[i] = m})

\* the client has subscribed, its fetchMessages has run to its end and it has
\* been notified of every insert
ChatQuiet(id) ==
  /\ chat.subscribed[id]
  /\ chat.fetch[id].pc = "done"
  /\ chat.notified[id] = Len(chat.table)

\* C39: once the fetch of a subscribed client is over and its notifications are
\* delivered, every message inserted since it subscribed is in its list exactly
\* once and the list is in the order of creation, however the fetch and the
\* notifications interleaved; no inserted message is blank, and a message is
\* flagged is_spectator exactly when its sender holds no player color.
C39_ChatMessagesOnceInOrder ==
  /\ \A id \in ClientIds :
       ChatQuiet(id) =>
         /\ \A k \in (chat.since[id] + 1)..Len(chat.table) :
              Times(chat.messages[id], chat.table[k]) = 1
         /\ \A i, j \in 1..Len(chat.messages[id]) :
              i < j => chat.messages[id][i].id < chat.messages[id][j].id
  /\ \A k \in 1..Len(chat.table) :
       /\ \E i \in 1..Len(chat.table[k].message) : chat.table[k].message[i] # " "
       /\ chat.table[k].is_spectator <=> clients[chat.table[k].sender_name].playerColor = NoColor

====
